---- MODULE Spec2Model ----
(***************************************************************************)
(* Verification model of the tractor dip-detection repository (TDA).       *)
(*                                                                         *)
(* Numbers.  The Python code computes in IEEE doubles.  The model computes *)
(* in fixed point on integers: pressures, baselines and residuals are      *)
(* integers in pressure units, dimensionless quantities (correlations,     *)
(* robust statistics, z-scores) are integers in units of 1/CS, template    *)
(* coefficients in units of 1/HS, Kalman variances in units of 1/PS.       *)
(* Divisions round toward minus infinity.  NaN is a distinguished value    *)
(* that every arithmetic operator propagates and every comparison rejects, *)
(* as IEEE arithmetic does.  Durations (the *_s parameters) are given in   *)
(* tenths of a second, sampling rates in Hz.                               *)
(***************************************************************************)
EXTENDS Integers, Sequences, FiniteSets, TLC

VARIABLES
    \* the unified DAQ/RIG server
    sess, rec, consumers, daq_q, db, called, srv,
    \* the broadcast servers
    clients, ws, send_tasks,
    \* ---- streaming application (run_streaming_mode / _with_live_plot) ----
    cfg,                    \* args: the configuration surface
    variant,                \* which of the two streaming scripts runs
    mode,                   \* args.mode: "replay" | "stdin" | "websocket"
    raw_idx,                \* number of input rows / lines / messages read
    bad_seen,               \* number of rows read with a non-finite field
    last_call,              \* arguments of the latest callback(t, x) call
    sample_idx,             \* callback's sample counter
    ma_buf, ma_sum,         \* moving-average deque and running sum
    smoothed_history,       \* deque of recent smoothed values
    last_old_det,           \* candidate index of the latest old-method row
    w_old,                  \* rows written by the old method
    b, P,                   \* KalmanMatchedBankStream baseline state
    res_buf, res_idx,       \* residual ring buffer and write index
    new_stream_sample_idx,  \* KalmanMatchedBankStream.sample_idx
    last_det_idx,           \* KalmanMatchedBankStream.last_det_idx
    robust_med, robust_mad, \* RobustStats
    recent_best,            \* deque of recent best correlations
    w_new,                  \* rows written by the new method
    \* ---- batch kalman_matched_bank_method ----
    km_cfg,                 \* its keyword arguments and fs
    km_x,                   \* the input series x
    km_z_corr,              \* z_corr, one value per sample
    km_candidates,          \* candidates (0-based sample indices)
    km_i,                   \* loop variable i of the peak-picking loop
    km_dets,                \* dets
    km_event,               \* what the latest loop iteration did to dets
    km_pc,                  \* "off" | "loop" | "returned"
    \* ---- batch smoothed_minima_method ----
    sm_cfg,                 \* its keyword arguments and fs
    sm_x,                   \* the input series x
    sm_y,                   \* the smoothed series y, multiplied by w
    sm_i,                   \* loop variable i
    sm_mins_idx,            \* mins_idx
    sm_event,               \* what the latest loop iteration did to mins_idx
    sm_pc,                  \* "off" | "loop" | "returned" | "IndexError"
    \* ---- compute_periods_times ----
    cp_indices,             \* indices (0-based detection indices)
    cp_times,               \* times
    cp_ret,                 \* the returned periods, speeds, det_times
    cp_pc,                  \* "off" | "call" | "returned"
    \* ---- Monte Carlo harness (dip_detector_montecarlo.py) ----
    h_cfg,                  \* the CONFIG section
    h_config_index,         \* main's config_index
    h_eval,                 \* arguments of the running evaluate_detector
    h_tr,                   \* trials of it completed
    h_results,              \* its results list
    h_dip_starts,           \* dip_starts of the latest trial
    h_detections,           \* detections of the latest trial
    h_match,                \* tp, matched and the matched pairs of it
    h_summary,              \* main's summary dict, keyed by (L, thr)
    h_rows,                 \* rows of the summary table
    h_exc,                  \* the exception that left main, if any
    h_pc,                   \* "off" | "main" | "evaluate" | "done" | "raised ..."
    \* ---- DipDetector in evaluate_detector's trial loop ----
    dd_cfg,                 \* fs, L, thr_k, refractory_s of the detector
    dd_tr,                  \* tr: trials completed
    dd_det,                 \* the fields of det, the trial's DipDetector
    dd_detections,          \* sample indices of the trial's detections
    dd_i,                   \* samples of the trial fed to det
    dd_ret,                 \* what the latest det.update(x) returned
    dd_xs,                  \* the samples of xs the trial has consumed
    dd_pc                   \* "off" | "trial" | "samples"

streamVars == <<cfg, variant, mode, raw_idx, bad_seen, last_call, sample_idx,
                ma_buf, ma_sum, smoothed_history, last_old_det, w_old,
                b, P, res_buf, res_idx, new_stream_sample_idx, last_det_idx,
                robust_med, robust_mad, recent_best, w_new>>

kmVars == <<km_cfg, km_x, km_z_corr, km_candidates, km_i, km_dets, km_event,
            km_pc>>

smVars == <<sm_cfg, sm_x, sm_y, sm_i, sm_mins_idx, sm_event, sm_pc>>

cpVars == <<cp_indices, cp_times, cp_ret, cp_pc>>

harnessVars == <<h_cfg, h_config_index, h_eval, h_tr, h_results, h_dip_starts,
                 h_detections, h_match, h_summary, h_rows, h_exc, h_pc>>

ddVars == <<dd_cfg, dd_tr, dd_det, dd_detections, dd_i, dd_ret, dd_xs, dd_pc>>

(***************************************************************************)
(* Bounds of the model.                                                    *)
(***************************************************************************)
MaxSamples == 7     \* rows read by one streaming run
MaxBad == 1         \* rows with a non-finite field in one run
BatchLen == 7       \* samples in one series of the batch Kalman method
MinimaLen == 9      \* samples in one series of the batch minima method
TimesLen == 4       \* samples in the time array of compute_periods_times
TRIALS == 2         \* Monte Carlo trials per configuration
DURATION_S == 30    \* length of one simulated trial, tenths of a second
DDSamples == 6      \* samples fed to a DipDetector in one trial
DDTrials == 2       \* trials of the DipDetector loop

(***************************************************************************)
(* Fixed-point scales and IEEE special values.                             *)
(***************************************************************************)
CS == 100           \* correlations, robust statistics, z-scores
HS == 100           \* template coefficients
PS == 1000          \* Kalman variances
TS == 10            \* times and durations: tenths of a second
SS == 1000          \* speeds and rates
NaN == -999999      \* np.nan / float('nan')
None == -999998     \* Python None

IsNaN(a) == a = NaN
IsFinite(a) == ~IsNaN(a)
FAdd(a, c) == IF IsNaN(a) \/ IsNaN(c) THEN NaN ELSE a + c
FSub(a, c) == IF IsNaN(a) \/ IsNaN(c) THEN NaN ELSE a - c
FMul(a, c) == IF IsNaN(a) \/ IsNaN(c) THEN NaN ELSE a * c
FDiv(a, c) == IF IsNaN(a) \/ IsNaN(c) THEN NaN ELSE a \div c
FLt(a, c) == IsFinite(a) /\ IsFinite(c) /\ a < c
FGt(a, c) == IsFinite(a) /\ IsFinite(c) /\ a > c
FGe(a, c) == IsFinite(a) /\ IsFinite(c) /\ a >= c
FAbs(a) == IF IsNaN(a) THEN NaN ELSE IF a < 0 THEN -a ELSE a

\* Python's max(a, c) of two arguments: the first unless the second is greater.
PyMax2(a, c) == IF FGt(c, a) THEN c ELSE a

\* Python's max(list): keep the first item, replace it by any greater item.
RECURSIVE PyMaxFrom(_, _, _)
PyMaxFrom(s, i, m) ==
    IF i > Len(s) THEN m
    ELSE PyMaxFrom(s, i + 1, IF FGt(s[i], m) THEN s[i] ELSE m)
PyMax(s) == PyMaxFrom(s, 2, s[1])

\* int(round(num/den)) for num >= 0, den > 0: round half to even.
PyRound(num, den) ==
    LET q == num \div den
        r == num % den
    IN  IF 2 * r < den THEN q
        ELSE IF 2 * r > den THEN q + 1
        ELSE IF q % 2 = 0 THEN q ELSE q + 1

\* math.sqrt on the fixed-point grid: the integer square root (NaN for NaN).
RECURSIVE SqrtFrom(_, _)
SqrtFrom(n, r) == IF (r + 1) * (r + 1) > n THEN r ELSE SqrtFrom(n, r + 1)
RECURSIVE SqrtSearch(_, _, _)
SqrtSearch(n, lo, hi) ==
    IF hi - lo <= 8 THEN SqrtFrom(n, lo)
    ELSE LET mid == (lo + hi) \div 2
         IN  IF mid * mid <= n THEN SqrtSearch(n, mid, hi)
             ELSE SqrtSearch(n, lo, mid)
Sqrt(n) == IF IsNaN(n) THEN NaN ELSE SqrtSearch(n, 0, 40000)

RECURSIVE SumSeq(_)
SumSeq(s) == IF s = <<>> THEN 0 ELSE FAdd(Head(s), SumSeq(Tail(s)))

Reverse(s) == [i \in 1..Len(s) |-> s[Len(s) + 1 - i]]
Dot(u, v) == SumSeq([i \in 1..Len(u) |-> FMul(u[i], v[i])])

\* Sorted copy of a sequence of finite numbers (np.sort inside np.median).
RECURSIVE Insert(_, _)
Insert(v, s) ==
    IF s = <<>> THEN <<v>>
    ELSE IF v <= Head(s) THEN <<v>> \o s
    ELSE <<Head(s)>> \o Insert(v, Tail(s))
RECURSIVE SortAsc(_)
SortAsc(s) == IF s = <<>> THEN <<>> ELSE Insert(Head(s), SortAsc(Tail(s)))

\* np.median: the middle value, or the mean of the two middle values.
Median(s) ==
    LET srt == SortAsc(s)
        n == Len(s)
    IN  IF n % 2 = 1 THEN srt[(n + 1) \div 2]
        ELSE (srt[n \div 2] + srt[n \div 2 + 1]) \div 2

\* deque(maxlen=cap).append(v)
DequeAppend(d, v, cap) ==
    IF cap = 0 THEN d
    ELSE IF Len(d) < cap THEN Append(d, v)
    ELSE Append(Tail(d), v)

(***************************************************************************)
(* Template bank (KalmanMatchedBankStream.__init__, batch method).         *)
(***************************************************************************)
\* Template length of the k-th width (k = 0 .. n_templates-1):
\* L = int(round(w_s * fs)), floored at 3, w_s from np.linspace.
TemplateLen(c, k) ==
    LET n == c.n_templates
        raw == IF n = 1 THEN PyRound(c.min_w_s * c.fs, 10)
               ELSE PyRound((c.min_w_s * (n - 1)
                             + k * (c.max_w_s - c.min_w_s)) * c.fs,
                            10 * (n - 1))
    IN  IF raw < 3 THEN 3 ELSE raw

L_list(c) == [k \in 1..c.n_templates |-> TemplateLen(c, k - 1)]

\* The negated, mean-subtracted, unit-norm Gaussian pulse of length L,
\* sigma = max(1, L/6), in units of 1/HS.
Template(L) ==
    CASE L = 3 -> <<41, -82, 41>>
      [] L = 4 -> <<50, -50, -50, 50>>
      [] L = 5 -> <<49, -15, -69, -15, 49>>
      [] L = 6 -> <<44, 11, -55, -55, 11, 44>>

RECURSIVE MaxOfSeq(_)
MaxOfSeq(s) ==
    IF Len(s) = 1 THEN s[1]
    ELSE LET m == MaxOfSeq(Tail(s)) IN IF s[1] >= m THEN s[1] ELSE m

maxL(c) == MaxOfSeq(L_list(c))

min_sep_samples(c) == PyRound(c.min_sep_s * c.fs, 10)
w(c) == LET r == PyRound(c.smooth_win_s * c.fs, 10) IN IF r > 1 THEN r ELSE 1
halfwin(c) == PyRound(c.local_max_halfwin_s * c.fs, 10)
robust_alpha == IF variant = "stream" THEN 1 ELSE 2   \* 0.01 / 0.02
recent_best_maxlen(c) == PyRound(50 * c.fs, 10)

(***************************************************************************)
(* KalmanMatchedBankStream: one process(t, x) call.                        *)
(***************************************************************************)
\* A slip of the update step: the gain multiplies the sample, not the
\* innovation x - b_pred.
update_kalmanGainOnSample(x) ==
    IF b = None THEN [b |-> x, P |-> PS]
    ELSE LET P_pred == P + cfg.kalman_q
         IN  [b |-> FAdd(b, FDiv(FMul(P_pred, x), P_pred + cfg.kalman_r)),
              P |-> P_pred - (P_pred * P_pred) \div (P_pred + cfg.kalman_r)]

\* update_kalman(x): the new (b, P).
update_kalman(x) ==
    IF b = None THEN [b |-> x, P |-> PS]
    ELSE LET q == cfg.kalman_q
             r == cfg.kalman_r
             b_pred == b
             P_pred == P + q
             \* K = P_pred / (P_pred + r), kept as a fraction
         IN  [b |-> FAdd(b_pred,
                         FDiv(FMul(P_pred, FSub(x, b_pred)), P_pred + r)),
              P |-> P_pred - (P_pred * P_pred) \div (P_pred + r)]

\* The window of the last L residuals, rebuilt from the ring buffer buf
\* (a function on 0..maxL-1) whose latest write was at index ridx.
Slice(buf, from, to) == [i \in 1..(to - from + 1) |-> buf[from + i - 1]]
\* A window whose wrapped halves are joined in the wrong order.
WindowWrapSwapped(buf, ridx, L) ==
    LET mL == maxL(cfg)
        idx0 == (ridx - (L - 1)) % mL
    IN  IF idx0 <= ridx THEN Slice(buf, idx0, ridx)
        ELSE Slice(buf, 0, ridx) \o Slice(buf, idx0, mL - 1)

Window(buf, ridx, L) ==
    LET mL == maxL(cfg)
        idx0 == (ridx - (L - 1)) % mL
    IN  IF idx0 <= ridx THEN Slice(buf, idx0, ridx)
        ELSE Slice(buf, idx0, mL - 1) \o Slice(buf, 0, ridx)

\* Normalised correlation of a window with template h, in units of 1/CS.
Corr(win, h) ==
    LET num == Dot(win, Reverse(h))
        local_energy == SumSeq([i \in 1..Len(win) |-> FMul(win[i], win[i])])
        denom == Sqrt(PyMax2(FMul(local_energy, Dot(h, h)), 1))
    IN  FDiv(FMul(num, CS), denom)

\* The template loop.  eligible[k] tells whether template k (1-based) has
\* seen L samples; corrs[k] is its correlation.  The loop folds
\* k = 1..n_templates into (best_corr, best_k); best_k is the 0-based
\* template index, -1 when no template was eligible.
Eligible(sidx) == [k \in 1..cfg.n_templates |-> ~(sidx < L_list(cfg)[k] - 1)]
Corrs(buf, ridx, sidx) ==
    [k \in 1..cfg.n_templates |->
        IF Eligible(sidx)[k]
        THEN Corr(Window(buf, ridx, L_list(cfg)[k]), Template(L_list(cfg)[k]))
        ELSE NaN]

\* A fold that lets a later template take over on a tie.
BestStepLastOnTies(acc, corr, k) ==
    IF acc.best_k = -1 \/ ~FGt(corr, acc.best_corr)
    THEN [best_corr |-> corr, best_k |-> k - 1]
    ELSE acc

BestStep(acc, corr, k) ==
    IF acc.best_k = -1 \/ FLt(corr, acc.best_corr)
    THEN [best_corr |-> corr, best_k |-> k - 1]
    ELSE acc

RECURSIVE BestFrom(_, _, _, _)
BestFrom(corrs, eligible, k, acc) ==
    IF k > Len(corrs) THEN acc
    ELSE BestFrom(corrs, eligible, k + 1,
                  IF eligible[k] THEN BestStep(acc, corrs[k], k) ELSE acc)

Best(buf, ridx, sidx) ==
    BestFrom(Corrs(buf, ridx, sidx), Eligible(sidx), 1,
             [best_corr |-> NaN, best_k |-> -1])

\* z = (best_corr - robust_med) / (1.4826 * max(robust_mad, eps)), 1/CS units
ZScore(best_corr, med, mad) ==
    IF IsNaN(best_corr) THEN NaN
    ELSE ((best_corr - med) * CS * 10000) \div (14826 * PyMax2(mad, 1))

\* A latest-wins picker: inside the refractory window a sample whose z is
\* below the z of the last detection is accepted as well.
StreamAcceptReTrigger(z, x, sidx) ==
    /\ IsFinite(z) /\ FGt(x, cfg.tractor_on_thr) /\ z < cfg.z_thresh
    /\ \/ last_det_idx < 0
       \/ sidx - last_det_idx >= min_sep_samples(cfg)
       \/ (w_new # <<>> /\ z < w_new[Len(w_new)].z)

\* StreamAccept with the refractory test measured from the sample before the
\* last detection (an off-by-one in the separation).
StreamAcceptOffByOne(z, x, sidx) ==
    /\ IsFinite(z) /\ FGt(x, cfg.tractor_on_thr) /\ z < cfg.z_thresh
    /\ \/ last_det_idx < 0
       \/ sidx - (last_det_idx - 1) >= min_sep_samples(cfg)

\* The acceptance test of the streaming peak picker.
StreamAccept(z, x, sidx) ==
    /\ IsFinite(z) /\ FGt(x, cfg.tractor_on_thr) /\ z < cfg.z_thresh
    /\ \/ last_det_idx < 0
       \/ sidx - last_det_idx >= min_sep_samples(cfg)

\* A slip of the activity gate: the pressure threshold is not tested.
ActiveIgnoringThreshold(x, best_corr) == IsFinite(best_corr)

\* `x > self.tr_threshold and not np.isnan(best_corr)`: the gate of the
\* robust-statistics update.
Active(x, best_corr) == FGt(x, cfg.tractor_on_thr) /\ IsFinite(best_corr)

process_result(t, x) ==
    LET sidx == new_stream_sample_idx + 1
        kal == update_kalman(x)
        residual == FSub(x, kal.b)
        ridx == (res_idx + 1) % maxL(cfg)
        buf == [res_buf EXCEPT ![ridx] = residual]
        best == Best(buf, ridx, sidx)
        best_corr == best.best_corr
        active == Active(x, best_corr)
        recent == IF active
                  THEN DequeAppend(recent_best, best_corr,
                                   recent_best_maxlen(cfg))
                  ELSE recent_best
        upd == active /\ Len(recent) >= 5
        med == Median(recent)
        mad == Median([i \in 1..Len(recent) |-> FAbs(recent[i] - med)])
        rmed == IF upd
                THEN ((100 - robust_alpha) * robust_med + robust_alpha * med)
                     \div 100
                ELSE robust_med
        rmad == IF upd
                THEN ((100 - robust_alpha) * robust_mad + robust_alpha * mad)
                     \div 100
                ELSE robust_mad
        z == ZScore(best_corr, rmed, rmad)
        accept == StreamAccept(z, x, sidx)
    IN  [sample_idx |-> sidx, b |-> kal.b, P |-> kal.P,
         res_idx |-> ridx, res_buf |-> buf, recent_best |-> recent,
         robust_med |-> rmed, robust_mad |-> rmad,
         best_corr |-> best_corr, best_k |-> best.best_k, z |-> z,
         detect |-> IF accept
                    THEN <<[idx |-> sidx, t |-> t, x |-> x,
                            template_idx |-> best.best_k,
                            corr |-> best_corr, z |-> z]>>
                    ELSE <<>>]

\* The assignments of process(): r is the record process_result computed.
process_assign(r) ==
    /\ new_stream_sample_idx' = r.sample_idx
    /\ b' = r.b
    /\ P' = r.P
    /\ res_idx' = r.res_idx
    /\ res_buf' = r.res_buf
    /\ recent_best' = r.recent_best
    /\ robust_med' = r.robust_med
    /\ robust_mad' = r.robust_mad
    /\ last_det_idx' = IF r.detect # <<>> THEN r.sample_idx ELSE last_det_idx
    /\ w_new' = w_new \o r.detect

process(t, x) == process_assign(process_result(t, x))

(***************************************************************************)
(* The per-sample callback of run_streaming_mode (variant "stream") and of *)
(* run_streaming_with_live_plot (variant "live_plot").                     *)
(***************************************************************************)
\* The moving-average deque after construction: pre-filled with w zeros in
\* combined_detector_stream.py, empty in combined_detector_stream_live_plot.py
ma_buf_init(v, c) == IF v = "stream" THEN [i \in 1..w(c) |-> 0] ELSE <<>>

\* local_max - seq[pos] over [max(0, pos-halfwin), min(N, pos+halfwin+1)):
\* the prominence of the 0-based position pos of the smoothed history seq.
HistDepth(seq, pos) ==
    LET left == IF pos - halfwin(cfg) > 0 THEN pos - halfwin(cfg) ELSE 0
        right == IF pos + halfwin(cfg) + 1 < Len(seq)
                 THEN pos + halfwin(cfg) + 1 ELSE Len(seq)
    IN  FSub(PyMax(SubSeq(seq, left + 1, right)), seq[pos + 1])

\* The look-ahead lag N - 1 - N//2 of a smoothed history of length N.
Lag(N) == N - 1 - N \div 2

\* OldAccept measuring the separation from the current sample index instead
\* of the back-shifted candidate index.
OldAcceptFromSample(cand_idx) ==
    \/ last_old_det < 0
    \/ (sample_idx + 1) - last_old_det >= PyRound(cfg.min_sep_s * cfg.fs, 10)

\* The separation test of the old (smoothed-minima) streaming method.
OldAccept(cand_idx) ==
    \/ last_old_det < 0
    \/ cand_idx - last_old_det >= PyRound(cfg.min_sep_s * cfg.fs, 10)

\* A candidate index without the back-shift: the current sample index.
CandIdxNoShift(sidx, N, center_idx) == sidx

\* cand_idx = sample_idx - (N - 1 - center_idx)
CandIdx(sidx, N, center_idx) == sidx - (N - 1 - center_idx)

callback_result(t, x) ==
    LET sidx == sample_idx + 1
        cap == w(cfg)
        fill == Len(ma_buf) < cap
        buf == IF fill THEN Append(ma_buf, x) ELSE Append(Tail(ma_buf), x)
        sum == IF fill THEN FAdd(ma_sum, x)
               ELSE FAdd(FSub(ma_sum, Head(ma_buf)), x)
        smoothed == IF Len(buf) > 0 THEN FDiv(sum, Len(buf)) ELSE x
        seq == DequeAppend(smoothed_history, smoothed, 2 * halfwin(cfg) + 5)
        N == Len(seq)
        center_idx == N \div 2                  \* 0-based
        center == seq[center_idx + 1]
        left == IF center_idx - halfwin(cfg) > 0
                THEN center_idx - halfwin(cfg) ELSE 0
        right == IF center_idx + halfwin(cfg) + 1 < N
                 THEN center_idx + halfwin(cfg) + 1 ELSE N
        local_max == PyMax(SubSeq(seq, left + 1, right))
        depth == FSub(local_max, center)
        cand_idx == CandIdx(sidx, N, center_idx)
        cand_time == FSub(t, N - 1 - center_idx)
        write == /\ N >= 3
                 /\ FGt(x, cfg.tractor_on_thr)
                 /\ FGe(depth, cfg.prominence_psi)
                 /\ OldAccept(cand_idx)
    IN  [sample_idx |-> sidx, ma_buf |-> buf, ma_sum |-> sum,
         smoothed_history |-> seq,
         row |-> IF write
                 THEN <<[idx |-> cand_idx, t |-> cand_time,
                         smoothed |-> center]>>
                 ELSE <<>>]

\* The assignments of the old-method half of the callback.
callback_assign(r) ==
    /\ sample_idx' = r.sample_idx
    /\ ma_buf' = r.ma_buf
    /\ ma_sum' = r.ma_sum
    /\ smoothed_history' = r.smoothed_history
    /\ w_old' = w_old \o r.row
    /\ last_old_det' = IF r.row # <<>> THEN r.row[1].idx ELSE last_old_det

callback(t, x) ==
    /\ last_call' = <<t, x>>
    /\ callback_assign(callback_result(t, x))
    /\ process(t, x)

NoCallback ==
    UNCHANGED <<last_call, sample_idx, ma_buf, ma_sum, smoothed_history,
                last_old_det, w_old, b, P, res_buf, res_idx,
                new_stream_sample_idx, last_det_idx, robust_med, robust_mad,
                recent_best, w_new>>

(***************************************************************************)
(* Ingestion: the three stream sources of the streaming application.       *)
(***************************************************************************)
XVals == {100, 200, 300}            \* finite pressures fed to the model

\* Rows the sources may deliver: the time stamp is the row number unless it
\* is non-finite; at most MaxBad rows of one run carry a non-finite field.
Rows == {<<raw_idx, x>> : x \in XVals}
        \cup (IF bad_seen < MaxBad
              THEN {<<raw_idx, NaN>>, <<NaN, 200>>} ELSE {})

Read(row) ==
    /\ raw_idx < MaxSamples
    /\ raw_idx' = raw_idx + 1
    /\ bad_seen' = IF IsNaN(row[1]) \/ IsNaN(row[2])
                   THEN bad_seen + 1 ELSE bad_seen
    /\ UNCHANGED <<cfg, variant, mode>>

\* replay_csv_stream: rows failing np.isfinite(tcol) & np.isfinite(xcol) are
\* masked out before the loop that calls callback(t, float(x)).
ReplayRow ==
    /\ mode = "replay"
    /\ \E row \in Rows :
        /\ Read(row)
        /\ IF IsFinite(row[1]) /\ IsFinite(row[2])
           THEN callback(row[1], row[2])
           ELSE NoCallback

\* stdin branch: t = float(parts[0]); x = float(parts[1]); callback(t, x)
StdinLine ==
    /\ mode = "stdin"
    /\ \E row \in Rows :
        /\ Read(row)
        /\ callback(row[1], row[2])

\* stdin branch: a blank line is skipped
StdinBlank ==
    /\ mode = "stdin"
    /\ raw_idx < MaxSamples
    /\ raw_idx' = raw_idx + 1
    /\ UNCHANGED <<cfg, variant, mode, bad_seen>>
    /\ NoCallback

\* websocket branch: t, x parsed by float() from the message; callback(t, x)
WebsocketMsg ==
    /\ mode = "websocket"
    /\ \E row \in Rows :
        /\ Read(row)
        /\ callback(row[1], row[2])

(***************************************************************************)
(* The streaming application as a state machine.                           *)
(***************************************************************************)
StreamConfigs ==
    { [fs |-> f, smooth_win_s |-> 7, prominence_psi |-> 50,
       local_max_halfwin_s |-> 3, min_sep_s |-> 10, tractor_on_thr |-> 150,
       min_w_s |-> 5, max_w_s |-> 15, n_templates |-> 2,
       kalman_q |-> PS, kalman_r |-> PS, z_thresh |-> -50] : f \in {2, 3} }

\* --min_sep_s 0: both peak pickers run with a separation of 0 samples.
ZeroSeparationConfigs ==
    { [fs |-> 3, smooth_win_s |-> 7, prominence_psi |-> 50,
       local_max_halfwin_s |-> 3, min_sep_s |-> 0, tractor_on_thr |-> 150,
       min_w_s |-> 5, max_w_s |-> 15, n_templates |-> 2,
       kalman_q |-> PS, kalman_r |-> PS, z_thresh |-> -50] }

\* The state after the set-up of run_streaming_mode /
\* run_streaming_with_live_plot with one of the given argument sets.
StreamInitWith(configs) ==
    /\ cfg \in configs
    /\ variant \in {"stream", "live_plot"}
    /\ mode \in {"replay", "stdin", "websocket"}
    /\ raw_idx = 0
    /\ bad_seen = 0
    /\ last_call = <<>>
    /\ sample_idx = -1
    /\ ma_buf = ma_buf_init(variant, cfg)
    /\ ma_sum = 0
    /\ smoothed_history = <<>>
    /\ last_old_det = -1
    /\ w_old = <<>>
    /\ b = None
    /\ P = PS
    /\ res_buf = [i \in 0..(maxL(cfg) - 1) |-> 0]
    /\ res_idx = -1
    /\ new_stream_sample_idx = -1
    /\ last_det_idx = -1
    /\ robust_med = 0
    /\ robust_mad = CS
    /\ recent_best = <<>>
    /\ w_new = <<>>

StreamInit == StreamInitWith(StreamConfigs)

StreamOff ==
    /\ cfg = <<>> /\ variant = "none" /\ mode = "off"
    /\ raw_idx = 0 /\ bad_seen = 0 /\ last_call = <<>> /\ sample_idx = -1
    /\ ma_buf = <<>> /\ ma_sum = 0 /\ smoothed_history = <<>>
    /\ last_old_det = -1 /\ w_old = <<>> /\ b = None /\ P = PS
    /\ res_buf = <<>> /\ res_idx = -1 /\ new_stream_sample_idx = -1
    /\ last_det_idx = -1 /\ robust_med = 0 /\ robust_mad = CS
    /\ recent_best = <<>> /\ w_new = <<>>

(***************************************************************************)
(* Properties of the streaming application.                                *)
(***************************************************************************)
AllFinite(s) == \A i \in 1..Len(s) : IsFinite(s[i])

\* C1: any two consecutively emitted detections of the streaming
\* Kalman/matched-filter detector are at least min_sep_samples apart.
C1_StreamKalmanMinSeparation ==
    \A k \in 1..(Len(w_new) - 1) :
        w_new[k + 1].idx - w_new[k].idx >= min_sep_samples(cfg)

\* Two detections were emitted, the second one exactly min_sep_samples
\* after the first.
C1_Witness ==
    /\ Len(w_new) >= 2
    /\ w_new[2].idx - w_new[1].idx = min_sep_samples(cfg)

\* C4: any two consecutively written old-method detections have candidate
\* indices at least round(min_sep_s*fs) apart, start-up phase included.
C4_StreamMinimaMinSeparation ==
    \A k \in 1..(Len(w_old) - 1) :
        w_old[k + 1].idx - w_old[k].idx >= PyRound(cfg.min_sep_s * cfg.fs, 10)

\* Two old-method rows were written while the smoothed history was still
\* filling.
C4_Witness ==
    /\ Len(w_old) >= 2
    /\ Len(smoothed_history) < 2 * halfwin(cfg) + 5

\* C7: a single bad sample costs at most its own detection: once the samples
\* held by the moving-average window are finite again, the Kalman baseline,
\* the residual just pushed and the running sum are finite, so later finite
\* samples can be detected.
C7_BadSampleCostsOneDetection ==
    (last_call # <<>> /\ IsFinite(last_call[2]) /\ AllFinite(ma_buf))
        => /\ IsFinite(b)
           /\ IsFinite(res_buf[res_idx])
           /\ IsFinite(ma_sum)

\* C8: in every ingestion mode a sample with a non-finite t or x never
\* reaches the per-sample callback.
C8_NonFiniteNeverReachesCallback ==
    last_call # <<>> => (IsFinite(last_call[1]) /\ IsFinite(last_call[2]))

(***************************************************************************)
(* Batch kalman_matched_bank_method(t, x, fs, ...).                        *)
(* Arrays are sequences; position n+1 holds the element of 0-based index n.*)
(***************************************************************************)
\* The Kalman baseline of the series: baseline[0] = x[0], then one
\* predict/update per sample.  acc holds the baseline so far, p the variance.
RECURSIVE BaselineFrom(_, _, _, _)
BaselineFrom(c, x, acc, p) ==
    IF Len(acc) = Len(x) THEN acc
    ELSE BaselineFrom(c, x,
            Append(acc, acc[Len(acc)]
                        + ((p + c.kalman_q) * (x[Len(acc) + 1] - acc[Len(acc)]))
                          \div (p + c.kalman_q + c.kalman_r)),
            (p + c.kalman_q)
              - ((p + c.kalman_q) * (p + c.kalman_q))
                \div (p + c.kalman_q + c.kalman_r))
Baseline(c, x) == BaselineFrom(c, x, <<x[1]>>, PS)

\* np.convolve(a, v, mode='same') for len(a) >= len(v): the centred part of
\* the full convolution, zero outside the series.
At0(a, n) == IF n >= 0 /\ n < Len(a) THEN a[n + 1] ELSE 0
ConvSame(a, v) ==
    [i \in 1..Len(a) |->
        SumSeq([j \in 1..Len(v) |->
                   v[j] * At0(a, (i - 1) + (Len(v) - 1) \div 2 - (j - 1))])]
      \o <<>>

\* corrs[k]: the normalised correlation of the residual with template k.
BatchCorrFrom(num, local_energy, h) ==
    [i \in 1..Len(num) |->
        (num[i] * CS) \div Sqrt(PyMax2(local_energy[i] * Dot(h, h), 1))]
      \o <<>>
BatchCorr(residual, h) ==
    BatchCorrFrom(ConvSame(residual, Reverse(h)),
                  ConvSame([i \in 1..Len(residual) |-> residual[i] * residual[i]]
                             \o <<>>,
                           [j \in 1..Len(h) |-> 1]),
                  h)

\* np.nanmin(corrs, axis=0) for finite correlations
RECURSIVE MinOfSeq(_)
MinOfSeq(s) ==
    IF Len(s) = 1 THEN s[1]
    ELSE LET m == MinOfSeq(Tail(s)) IN IF s[1] <= m THEN s[1] ELSE m

\* a[mask]: the elements of a selected by a boolean mask
RECURSIVE Select(_, _)
Select(a, mask) ==
    IF a = <<>> THEN <<>>
    ELSE (IF Head(mask) THEN <<Head(a)>> ELSE <<>>)
         \o Select(Tail(a), Tail(mask))

\* z_corr = (best_corr - med) / (1.4826 * mad), mad = median(|.|) + 1e-9.
\* A zero median deviation leaves the 1e-9 alone in the divisor: the
\* quotient is then the deviation on a far larger scale, its sign kept.
BatchZ(best_corr, med, mad) ==
    IF mad = 0 THEN (best_corr - med) * 1000000
    ELSE ((best_corr - med) * CS * 10000) \div (14826 * mad)

Residual(x, baseline) == [i \in 1..Len(x) |-> x[i] - baseline[i]] \o <<>>
BestCorr(c, residual) ==
    LET corrs == [k \in 1..c.n_templates |->
                     BatchCorr(residual, Template(L_list(c)[k]))] \o <<>>
    IN  [i \in 1..Len(residual) |->
            MinOfSeq([k \in 1..c.n_templates |-> corrs[k][i]])] \o <<>>
ZFrom(best_corr, sel) ==
    LET med == Median(sel)
        mad == Median([i \in 1..Len(sel) |-> FAbs(sel[i] - med)] \o <<>>)
    IN  [i \in 1..Len(best_corr) |-> BatchZ(best_corr[i], med, mad)] \o <<>>
ZOn(c, x, best_corr) ==
    LET tractor_on == [i \in 1..Len(x) |-> x[i] > c.tractor_on_thr]
    IN  ZFrom(best_corr,
              IF \E i \in 1..Len(x) : tractor_on[i]
              THEN Select(best_corr, tractor_on) ELSE best_corr)
z_corr_of(c, x) == ZOn(c, x, BestCorr(c, Residual(x, Baseline(c, x))))

\* candidates = np.where((z_corr < z_thresh) & tractor_on & isfinite)[0]
RECURSIVE WhereFrom(_, _)
WhereFrom(mask, n) ==
    IF n > Len(mask) THEN <<>>
    ELSE (IF mask[n] THEN <<n - 1>> ELSE <<>>) \o WhereFrom(mask, n + 1)
candidates_of(c, x, z) ==
    WhereFrom([i \in 1..Len(x) |-> z[i] < c.z_thresh /\ x[i] > c.tractor_on_thr],
              1)

\* An inner loop that walks the cluster and keeps its first index.
RECURSIVE ClusterScanKeepsFirst(_, _, _, _)
ClusterScanKeepsFirst(cands, z, j, best_idx) ==
    IF j + 1 <= Len(cands) /\ cands[j + 1] - cands[j] <= 1
    THEN ClusterScanKeepsFirst(cands, z, j + 1, best_idx)
    ELSE [j |-> j, best_idx |-> best_idx]

\* The inner while loop: from position j (1-based) of candidates, extend
\* the cluster while the next candidate is contiguous, keeping the best.
RECURSIVE ClusterScan(_, _, _, _)
ClusterScan(cands, z, j, best_idx) ==
    IF j + 1 <= Len(cands) /\ cands[j + 1] - cands[j] <= 1
    THEN ClusterScan(cands, z, j + 1,
                     IF z[cands[j + 1] + 1] < z[best_idx + 1]
                     THEN cands[j + 1] ELSE best_idx)
    ELSE [j |-> j, best_idx |-> best_idx]

\* A slip of the replacement branch: a cluster inside the separation always
\* overwrites the last detection, whatever its z.
DetsUpdateAlwaysReplaces(dets, best_idx, z, min_sep) ==
    IF dets = <<>> \/ best_idx - dets[Len(dets)] >= min_sep
    THEN Append(dets, best_idx)
    ELSE [dets EXCEPT ![Len(dets)] = best_idx]

\* A slip of the replacement branch: the better cluster is appended instead
\* of overwriting the last detection.
DetsUpdateAppends(dets, best_idx, z, min_sep) ==
    IF dets = <<>> \/ best_idx - dets[Len(dets)] >= min_sep
    THEN Append(dets, best_idx)
    ELSE IF z[best_idx + 1] < z[dets[Len(dets)] + 1]
         THEN Append(dets, best_idx)
         ELSE dets

\* Lines 146-150: append the cluster's best index, or let it overwrite the
\* last detection, or drop it.
DetsUpdate(dets, best_idx, z, min_sep) ==
    IF dets = <<>> \/ best_idx - dets[Len(dets)] >= min_sep
    THEN Append(dets, best_idx)
    ELSE IF z[best_idx + 1] < z[dets[Len(dets)] + 1]
         THEN [dets EXCEPT ![Len(dets)] = best_idx]
         ELSE dets

KMEvent(dets, best_idx, z, min_sep) ==
    IF dets = <<>> \/ best_idx - dets[Len(dets)] >= min_sep THEN "append"
    ELSE IF z[best_idx + 1] < z[dets[Len(dets)] + 1] THEN "replace"
    ELSE "drop"

\* One iteration of the outer while loop (km_i is the 0-based i).
KMCluster ==
    /\ km_pc = "loop"
    /\ km_i < Len(km_candidates)
    /\ LET scan == ClusterScan(km_candidates, km_z_corr, km_i + 1,
                               km_candidates[km_i + 1])
       IN  /\ km_dets' = DetsUpdate(km_dets, scan.best_idx, km_z_corr,
                                    min_sep_samples(km_cfg))
           /\ km_event' = KMEvent(km_dets, scan.best_idx, km_z_corr,
                                  min_sep_samples(km_cfg))
           /\ km_i' = scan.j
    /\ UNCHANGED <<km_cfg, km_x, km_z_corr, km_candidates, km_pc>>

\* The loop ends and the function returns dets.
KMReturn ==
    /\ km_pc = "loop"
    /\ km_i >= Len(km_candidates)
    /\ km_pc' = "returned"
    /\ UNCHANGED <<km_cfg, km_x, km_z_corr, km_candidates, km_i, km_dets,
                   km_event>>

BatchConfigs ==
    { [fs |-> f, min_sep_s |-> 10, tractor_on_thr |-> 150,
       min_w_s |-> 5, max_w_s |-> 15, n_templates |-> 2,
       kalman_q |-> PS, kalman_r |-> PS, z_thresh |-> zt]
      : f \in {2, 3}, zt \in {-50, 0} }

BatchSeries == [1..BatchLen -> XVals]

KMInit ==
    /\ km_cfg \in BatchConfigs
    /\ km_x \in BatchSeries
    /\ km_z_corr = z_corr_of(km_cfg, km_x)
    /\ km_candidates = candidates_of(km_cfg, km_x, km_z_corr)
    /\ km_i = 0
    /\ km_dets = <<>>
    /\ km_event = "none"
    /\ km_pc = "loop"

KMOff ==
    /\ km_cfg = <<>> /\ km_x = <<>> /\ km_z_corr = <<>>
    /\ km_candidates = <<>> /\ km_i = 0 /\ km_dets = <<>>
    /\ km_event = "none" /\ km_pc = "off"

(***************************************************************************)
(* Batch smoothed_minima_method(t, x, fs, ...).                            *)
(***************************************************************************)
\* np.pad(x, (pad, pad), mode='edge')
PadEdge(x, pad) ==
    [k \in 1..(Len(x) + 2 * pad) |->
        x[IF k - pad < 1 THEN 1
          ELSE IF k - pad > Len(x) THEN Len(x) ELSE k - pad]] \o <<>>

\* y = np.convolve(xpad, box, mode='same')[pad:-pad], carried multiplied by
\* w so that the division by w loses nothing: the boxcar is all ones here.
\* For pad = 0 the slice [0:-0] is empty.
y_of(x, width) ==
    LET pad == width \div 2
    IN  IF pad = 0 THEN <<>>
        ELSE SubSeq(ConvSame(PadEdge(x, pad), [j \in 1..width |-> 1]),
                    pad + 1, Len(x) + pad)

\* depth of the minimum at 0-based index i: the maximum of y over
\* [max(0, i-halfwin), min(N, i+halfwin+1)) minus y[i]
Depth(y, i, hw) ==
    LET left == IF i - hw > 0 THEN i - hw ELSE 0
        right == IF i + hw + 1 < Len(y) THEN i + hw + 1 ELSE Len(y)
    IN  MaxOfSeq(SubSeq(y, left + 1, right)) - y[i + 1]

\* The test of line 63 on the smoothed series (0-based i).
IsMinimum(y, i) == y[i + 1] < y[i] /\ y[i + 1] <= y[i + 2]

\* An earliest-wins rule: a candidate inside the separation window is
\* dropped however prominent it is.
MinsUpdateNeverReplaces(mins, i, y, hw, min_sep) ==
    IF mins = <<>> \/ i - mins[Len(mins)] >= min_sep
    THEN Append(mins, i)
    ELSE mins

\* A slip of the replacement branch: the more prominent candidate is
\* appended instead of replacing the last minimum.
MinsUpdateAppends(mins, i, y, hw, min_sep) ==
    IF mins = <<>> \/ i - mins[Len(mins)] >= min_sep
    THEN Append(mins, i)
    ELSE IF Depth(y, i, hw) > Depth(y, mins[Len(mins)], hw)
         THEN Append(mins, i)
         ELSE mins

\* Lines 68-76: append the candidate, or let it replace the last accepted
\* minimum when it is more prominent, or drop it.
MinsUpdate(mins, i, y, hw, min_sep) ==
    IF mins = <<>> \/ i - mins[Len(mins)] >= min_sep
    THEN Append(mins, i)
    ELSE IF Depth(y, i, hw) > Depth(y, mins[Len(mins)], hw)
         THEN [mins EXCEPT ![Len(mins)] = i]
         ELSE mins

SMEvent(mins, i, y, hw, min_sep) ==
    IF mins = <<>> \/ i - mins[Len(mins)] >= min_sep THEN "append"
    ELSE IF Depth(y, i, hw) > Depth(y, mins[Len(mins)], hw) THEN "replace"
    ELSE "drop"

\* One iteration of the while loop at index sm_i on an inactive sample, or
\* on an active one whose smoothed value exists.
SMIter ==
    /\ sm_pc = "loop"
    /\ sm_i < Len(sm_x) - 1
    /\ ~(sm_x[sm_i + 1] > sm_cfg.tractor_on_thr) \/ sm_y # <<>>
    /\ LET cand == /\ sm_x[sm_i + 1] > sm_cfg.tractor_on_thr
                   /\ IsMinimum(sm_y, sm_i)
                   /\ Depth(sm_y, sm_i, halfwin(sm_cfg))
                        >= w(sm_cfg) * sm_cfg.prominence_psi
       IN  IF cand
           THEN /\ sm_mins_idx' = MinsUpdate(sm_mins_idx, sm_i, sm_y,
                                             halfwin(sm_cfg),
                                             PyRound(sm_cfg.min_sep_s * sm_cfg.fs, 10))
                /\ sm_event' = SMEvent(sm_mins_idx, sm_i, sm_y,
                                       halfwin(sm_cfg),
                                       PyRound(sm_cfg.min_sep_s * sm_cfg.fs, 10))
           ELSE /\ sm_mins_idx' = sm_mins_idx
                /\ sm_event' = "none"
    /\ sm_i' = sm_i + 1
    /\ UNCHANGED <<sm_cfg, sm_x, sm_y, sm_pc>>

\* y is empty (w = 1): y[i] raises IndexError on the first active sample.
SMIndexError ==
    /\ sm_pc = "loop"
    /\ sm_i < Len(sm_x) - 1
    /\ sm_x[sm_i + 1] > sm_cfg.tractor_on_thr
    /\ sm_y = <<>>
    /\ sm_pc' = "IndexError"
    /\ UNCHANGED <<sm_cfg, sm_x, sm_y, sm_i, sm_mins_idx, sm_event>>

\* The loop ends and the function returns mins_idx.
SMReturn ==
    /\ sm_pc = "loop"
    /\ sm_i >= Len(sm_x) - 1
    /\ sm_pc' = "returned"
    /\ UNCHANGED <<sm_cfg, sm_x, sm_y, sm_i, sm_mins_idx, sm_event>>

MinimaConfigs ==
    { [fs |-> f, smooth_win_s |-> 7, prominence_psi |-> 50,
       local_max_halfwin_s |-> hw, min_sep_s |-> 10, tractor_on_thr |-> 150]
      : f \in {2, 3, 4}, hw \in {3, 8} }

SMInit ==
    /\ sm_cfg \in MinimaConfigs
    /\ sm_x \in [1..MinimaLen -> XVals]
    /\ sm_y = y_of(sm_x, w(sm_cfg))
    /\ sm_i = 1
    /\ sm_mins_idx = <<>>
    /\ sm_event = "none"
    /\ sm_pc = "loop"

SMOff ==
    /\ sm_cfg = <<>> /\ sm_x = <<>> /\ sm_y = <<>> /\ sm_i = 1
    /\ sm_mins_idx = <<>> /\ sm_event = "none" /\ sm_pc = "off"

(***************************************************************************)
(* compute_periods_times(indices, times).                                  *)
(* Times are integers in tenths of a second; speeds are integers in units  *)
(* of 1/SS Hz.  A division of 1.0 by a zero period gives numpy's inf.      *)
(***************************************************************************)
Inf == 999999       \* np.inf

\* times[indices]: numpy fancy indexing with 0-based indices.
Take(times, indices) == [k \in 1..Len(indices) |-> times[indices[k] + 1]]

\* np.diff(a): the len(a) - 1 differences of neighbours.
DiffFromFirst(a) == [k \in 1..(Len(a) - 1) |-> a[k + 1] - a[1]]
Diff(a) == [k \in 1..(Len(a) - 1) |-> a[k + 1] - a[k]]

\* 1.0 / p on a numpy array element: inf for a zero period, no exception.
Reciprocal(p) ==
    IF p = 0 THEN Inf ELSE (SS * TS) \div p

\* The return value of compute_periods_times.
compute_periods_times(indices, times) ==
    IF Len(indices) < 2
    THEN [periods |-> <<>>, speeds |-> <<>>, det_times |-> <<>>]
    ELSE LET det_times == Take(times, indices)
             periods == Diff(det_times)
             mid_t == [k \in 1..(Len(det_times) - 1) |->
                          (det_times[k + 1] + det_times[k]) \div 2]
             speeds == [k \in 1..Len(periods) |-> Reciprocal(periods[k])]
         IN  [periods |-> periods, speeds |-> speeds, det_times |-> det_times]

\* Strictly increasing 0-based index lists into an array of n samples, as
\* both batch detectors return them.
RECURSIVE IndexListsFrom(_, _)
IndexListsFrom(lo, n) ==
    {<<>>} \cup UNION { { <<i>> \o rest : rest \in IndexListsFrom(i + 1, n) }
                        : i \in lo..(n - 1) }

TimeVals == {0, 3, 5, 10}

CPCall ==
    /\ cp_pc = "call"
    /\ cp_ret' = compute_periods_times(cp_indices, cp_times)
    /\ cp_pc' = "returned"
    /\ UNCHANGED <<cp_indices, cp_times>>

CPInit ==
    /\ cp_times \in [1..TimesLen -> TimeVals]
    /\ cp_indices \in IndexListsFrom(0, TimesLen)
    /\ cp_ret = <<>>
    /\ cp_pc = "call"

CPOff ==
    /\ cp_times = <<>> /\ cp_indices = <<>> /\ cp_ret = <<>> /\ cp_pc = "off"

(***************************************************************************)
(* The Monte Carlo harness (dip_detector_montecarlo.py): main's sweep over *)
(* LS x THR_KS and evaluate_detector's trial loop.  Times are in tenths of *)
(* a second, thresholds in hundredths.  What the seeded random generator   *)
(* draws in a trial, and which samples the DipDetector fires on, are       *)
(* choices: the dip starts follow simulate_stream_array's jittered         *)
(* recurrence on a grid of GRID tenths, the detections are sample times    *)
(* kept apart by the detector's refractory count.                          *)
(***************************************************************************)
SEED_BASE == 12345
REFRACTORY_S == 15  \* refractory_s=1.5 of the DipDetector built per trial
GRID == 5           \* grid of the drawn dip starts, in tenths of a second

\* np.arange(n_total) * dt, with n_total = int(round(duration_s * fs)).
SampleTimes(c) ==
    [i \in 1..PyRound(c.DURATION_S * c.FS, TS) |-> ((i - 1) * TS) \div c.FS]

\* simulate_stream_array's dip_starts: t_next = uniform(lo, hi); while
\* t_next < duration_s: append t_next; t_next += uniform(lo, hi).
JitterSteps(c) ==
    { d \in c.PERIOD_JITTER[1]..c.PERIOD_JITTER[2] : d % GRID = 0 }
RECURSIVE DipStartsFrom(_, _)
DipStartsFrom(c, t_next) ==
    IF t_next < c.DURATION_S
    THEN UNION { { <<t_next>> \o rest : rest \in DipStartsFrom(c, t_next + d) }
                 : d \in JitterSteps(c) }
    ELSE {<<>>}
DipStarts(c) == UNION { DipStartsFrom(c, d) : d \in JitterSteps(c) }

\* The sample indices a DipDetector can fire on: after a detection the
\* cooldown blocks the next `refractory` samples.
RECURSIVE FiringsFrom(_, _, _)
FiringsFrom(lo, n, gap) ==
    {<<>>} \cup UNION { { <<i>> \o rest : rest \in FiringsFrom(i + gap, n, gap) }
                        : i \in lo..(n - 1) }
DetectionLists(c) ==
    LET times == SampleTimes(c)
        refractory == PyRound(REFRACTORY_S * c.FS, TS)
    IN  { [k \in 1..Len(f) |-> times[f[k] + 1]]
          : f \in FiringsFrom(0, Len(times), refractory + 1) }

\* np.where(np.abs(dip_starts - d) <= tol_s)[0], 0-based.
Within(dip_starts, d, tol_s) ==
    { j \in 0..(Len(dip_starts) - 1) :
        FAbs(dip_starts[j + 1] - d) <= tol_s }

\* A slip of the matching loop: the last free dip start within the
\* tolerance is taken instead of the first.
MaxOfSet(S) == CHOOSE m \in S : \A n \in S : m >= n

MinOfSet(S) == CHOOSE m \in S : \A n \in S : m <= n

\* A slip of the matching loop: the matched set is not consulted, so a dip
\* start can be taken by several detections.
RECURSIVE MatchFromReusing(_, _, _, _, _)
MatchFromReusing(detections, dip_starts, tol_s, k, st) ==
    IF k > Len(detections) THEN st
    ELSE LET near == Within(dip_starts, detections[k], tol_s)
         IN  IF near = {}
             THEN MatchFromReusing(detections, dip_starts, tol_s, k + 1, st)
             ELSE MatchFromReusing(detections, dip_starts, tol_s, k + 1,
                                   [tp |-> st.tp + 1,
                                    matched |-> st.matched
                                                \cup {MinOfSet(near)},
                                    pairs |-> Append(st.pairs,
                                                     <<k - 1, MinOfSet(near)>>)])

\* A slip of the matching loop: each detection takes the last free dip
\* start within the tolerance instead of the first.
RECURSIVE MatchFromLastFree(_, _, _, _, _)
MatchFromLastFree(detections, dip_starts, tol_s, k, st) ==
    IF k > Len(detections) THEN st
    ELSE LET free == Within(dip_starts, detections[k], tol_s) \ st.matched
         IN  IF free = {}
             THEN MatchFromLastFree(detections, dip_starts, tol_s, k + 1, st)
             ELSE MatchFromLastFree(detections, dip_starts, tol_s, k + 1,
                                    [tp |-> st.tp + 1,
                                     matched |-> st.matched
                                                 \cup {MaxOfSet(free)},
                                     pairs |-> Append(st.pairs,
                                                      <<k - 1,
                                                        MaxOfSet(free)>>)])

\* The matching loop: each detection takes the first dip start within the
\* tolerance that no earlier detection has taken.
RECURSIVE MatchFrom(_, _, _, _, _)
MatchFrom(detections, dip_starts, tol_s, k, st) ==
    IF k > Len(detections) THEN st
    ELSE LET free == Within(dip_starts, detections[k], tol_s) \ st.matched
         IN  IF free = {}
             THEN MatchFrom(detections, dip_starts, tol_s, k + 1, st)
             ELSE MatchFrom(detections, dip_starts, tol_s, k + 1,
                            [tp |-> st.tp + 1,
                             matched |-> st.matched \cup {MinOfSet(free)},
                             pairs |-> Append(st.pairs,
                                              <<k - 1, MinOfSet(free)>>)])
Match(detections, dip_starts, tol_s) ==
    MatchFrom(detections, dip_starts, tol_s, 1,
              [tp |-> 0, matched |-> {}, pairs |-> <<>>])

\* The dict appended to results for one trial.
TrialResult(detections, dip_starts, tol_s) ==
    LET tp == Match(detections, dip_starts, tol_s).tp
    IN  [tp |-> tp,
         fp |-> PyMax2(0, Len(detections) - tp),
         fn |-> PyMax2(0, Len(dip_starts) - tp),
         n_dips |-> Len(dip_starts),
         n_detections |-> Len(detections)]

\* sum(r[f] for r in results): Python's left fold from 0.
SumFieldLast(results, f) ==
    IF results = <<>> THEN 0 ELSE results[Len(results)][f]
SumField(results, f) ==
    SumSeq([k \in 1..Len(results) |-> results[k][f]])

\* The dict evaluate_detector returns.
Aggregate(trials, results) ==
    [trials |-> trials,
     tp |-> SumField(results, "tp"),
     fp |-> SumField(results, "fp"),
     fn |-> SumField(results, "fn"),
     dips |-> SumField(results, "n_dips"),
     detections |-> SumField(results, "n_detections"),
     per_trial |-> results]

\* The configuration the sweep is at: `for L in LS: for thr in THR_KS`.
NumConfigs(c) == Len(c.LS) * Len(c.THR_KS)
ConfigL(c, n) == c.LS[((n - 1) \div Len(c.THR_KS)) + 1]
ConfigThr(c, n) == c.THR_KS[((n - 1) % Len(c.THR_KS)) + 1]

\* What makes a trial raise: dt = 1.0/fs in simulate_stream_array, and
\* deque(maxlen=L) in DipDetector.__init__.
TrialException(c, L) ==
    IF c.FS = 0 THEN "ZeroDivisionError"
    ELSE IF L < 0 THEN "ValueError"
    ELSE "none"

\* main: the next configuration of the sweep calls evaluate_detector.
MainNextConfig ==
    /\ h_pc = "main"
    /\ h_config_index < NumConfigs(h_cfg)
    /\ h_config_index' = h_config_index + 1
    /\ h_eval' = [L |-> ConfigL(h_cfg, h_config_index + 1),
                  thr_k |-> ConfigThr(h_cfg, h_config_index + 1),
                  seed0 |-> SEED_BASE
                            + ConfigL(h_cfg, h_config_index + 1) * 10
                            + ConfigThr(h_cfg, h_config_index + 1)]
    /\ h_results' = <<>>
    /\ h_tr' = 0
    /\ h_pc' = "evaluate"
    /\ UNCHANGED <<h_cfg, h_dip_starts, h_detections, h_match, h_summary,
                   h_rows, h_exc>>

\* evaluate_detector: one iteration of `for tr in range(trials)`.
EvaluateTrial ==
    /\ h_pc = "evaluate"
    /\ h_tr < h_cfg.TRIALS
    /\ TrialException(h_cfg, h_eval.L) = "none"
    /\ \E dip_starts \in DipStarts(h_cfg), detections \in DetectionLists(h_cfg) :
          /\ h_dip_starts' = dip_starts
          /\ h_detections' = detections
          /\ h_match' = Match(detections, dip_starts, h_cfg.TP_TOL_S)
          /\ h_results' = Append(h_results,
                                 TrialResult(detections, dip_starts,
                                             h_cfg.TP_TOL_S))
    /\ h_tr' = h_tr + 1
    /\ UNCHANGED <<h_cfg, h_config_index, h_eval, h_summary, h_rows, h_pc,
                   h_exc>>

\* Time-ordered lists of at most MatchLen times on the grid of the dip
\* starts.
MatchSlots == 7
MatchLen == 3
MatchLists ==
    { [k \in 1..Len(f) |-> GRID * f[k]]
      : f \in { g \in FiringsFrom(0, MatchSlots, 1) : Len(g) <= MatchLen } }

\* The matching loop of evaluate_detector (tp = 0; matched = set();
\* for d in detections: ...) applied to the two lists.
MatchCall ==
    /\ h_pc = "match"
    /\ h_match' = Match(h_detections, h_dip_starts, h_cfg.TP_TOL_S)
    /\ h_pc' = "matched"
    /\ UNCHANGED <<h_cfg, h_config_index, h_eval, h_tr, h_results,
                   h_dip_starts, h_detections, h_summary, h_rows, h_exc>>

\* evaluate_detector: a trial raises.  Neither evaluate_detector nor main
\* has an exception handler, so the exception leaves main.
TrialRaises ==
    /\ h_pc = "evaluate"
    /\ h_tr < h_cfg.TRIALS
    /\ TrialException(h_cfg, h_eval.L) # "none"
    /\ h_exc' = TrialException(h_cfg, h_eval.L)
    /\ h_pc' = "raised in trial"
    /\ UNCHANGED <<h_cfg, h_config_index, h_eval, h_tr, h_results,
                   h_dip_starts, h_detections, h_match, h_summary,
                   h_rows>>

\* evaluate_detector aggregates and returns; main stores the result.
EvaluateReturn ==
    /\ h_pc = "evaluate"
    /\ h_tr = h_cfg.TRIALS
    /\ h_summary' =
          [key \in DOMAIN h_summary \cup {<<h_eval.L, h_eval.thr_k>>} |->
              IF key = <<h_eval.L, h_eval.thr_k>>
              THEN Aggregate(h_cfg.TRIALS, h_results)
              ELSE h_summary[key]]
    /\ h_pc' = "main"
    /\ UNCHANGED <<h_cfg, h_config_index, h_eval, h_tr, h_results,
                   h_dip_starts, h_detections, h_match, h_rows, h_exc>>

\* df.sort_values(['L', 'thr']): the keys in lexicographic order.
KeyLess(a, c) == a[1] < c[1] \/ (a[1] = c[1] /\ a[2] < c[2])
RECURSIVE SortedKeys(_)
SortedKeys(S) ==
    IF S = {} THEN <<>>
    ELSE LET first == CHOOSE a \in S : \A c \in S \ {a} : KeyLess(a, c)
         IN  <<first>> \o SortedKeys(S \ {first})

\* One row of the summary table; TPR and FPR_per_min in units of 1/SS.
Row(key, res, c) ==
    [L |-> key[1], thr |-> key[2],
     TPR |-> IF res.dips > 0 THEN (res.tp * SS) \div res.dips ELSE 0,
     FPR_per_min |-> (res.fp * SS * 60 * TS) \div (res.trials * c.DURATION_S),
     TP |-> res.tp, FP |-> res.fp, FN |-> res.fn, Dips |-> res.dips]
Rows_of(summary, c) ==
    LET keys == SortedKeys(DOMAIN summary)
    IN  [k \in 1..Len(keys) |-> Row(keys[k], summary[keys[k]], c)]

\* markers = {4:'o', 6:'s', 8:'^'} of the scatter plot.
markers == {4, 6, 8}

\* main after the sweep: summary table, plot, ranking, CSV.
MainReport ==
    /\ h_pc = "main"
    /\ h_config_index = NumConfigs(h_cfg)
    /\ \A key \in DOMAIN h_summary : key[1] \in markers
    /\ h_rows' = Rows_of(h_summary, h_cfg)
    /\ h_pc' = "done"
    /\ UNCHANGED <<h_cfg, h_config_index, h_eval, h_tr, h_results,
                   h_dip_starts, h_detections, h_match, h_summary,
                   h_exc>>

\* main after the sweep: markers[int(row['L'])] raises for an L it lacks.
MainPlotKeyError ==
    /\ h_pc = "main"
    /\ h_config_index = NumConfigs(h_cfg)
    /\ \E key \in DOMAIN h_summary : key[1] \notin markers
    /\ h_rows' = Rows_of(h_summary, h_cfg)
    /\ h_exc' = "KeyError"
    /\ h_pc' = "raised in plot"
    /\ UNCHANGED <<h_cfg, h_config_index, h_eval, h_tr, h_results,
                   h_dip_starts, h_detections, h_match, h_summary>>

\* A single-configuration sweep over trials of DURATION_S, and sweeps over
\* several configurations over short trials.
HarnessConfig(FS, LS, THR_KS, tol, duration) ==
    [FS |-> FS, LS |-> LS, THR_KS |-> THR_KS, TP_TOL_S |-> tol,
     PERIOD_JITTER |-> <<10, 20>>, DURATION_S |-> duration,
     TRIALS |-> TRIALS]
HarnessConfigs ==
    { HarnessConfig(2, <<4>>, <<250>>, tol, DURATION_S) : tol \in {5, 10} }
    \cup { HarnessConfig(p[1], p[2], p[3], 5, 15)
           : p \in { <<2, <<4, 6>>, <<250>>>>,
                     <<2, <<5>>, <<200, 250>>>>,
                     <<2, <<4, -1, 6>>, <<250>>>>,
                     <<0, <<4, 6>>, <<250>>>> } }

HInit ==
    /\ h_cfg \in HarnessConfigs
    /\ h_config_index = 0
    /\ h_eval = <<>>
    /\ h_tr = 0
    /\ h_results = <<>>
    /\ h_dip_starts = <<>>
    /\ h_detections = <<>>
    /\ h_match = [tp |-> 0, matched |-> {}, pairs |-> <<>>]
    /\ h_summary = <<>>
    /\ h_rows = <<>>
    /\ h_exc = "none"
    /\ h_pc = "main"

\* The state before the matching loop of one trial, for any two time-ordered
\* lists.
MatchingInit ==
    /\ h_cfg \in HarnessConfigs
    /\ h_config_index = 0
    /\ h_eval = <<>>
    /\ h_tr = 0
    /\ h_results = <<>>
    /\ h_dip_starts \in MatchLists
    /\ h_detections \in MatchLists
    /\ h_match = [tp |-> 0, matched |-> {}, pairs |-> <<>>]
    /\ h_summary = <<>>
    /\ h_rows = <<>>
    /\ h_exc = "none"
    /\ h_pc = "match"

HOff ==
    /\ h_cfg = <<>> /\ h_config_index = 0 /\ h_eval = <<>> /\ h_tr = 0
    /\ h_results = <<>> /\ h_dip_starts = <<>> /\ h_detections = <<>>
    /\ h_match = [tp |-> 0, matched |-> {}, pairs |-> <<>>]
    /\ h_summary = <<>> /\ h_rows = <<>> /\ h_exc = "none" /\ h_pc = "off"

(***************************************************************************)
(* DipDetector (dip_detector_montecarlo.py, dipdetector.py) inside the     *)
(* trial loop of evaluate_detector: a detector is constructed per trial    *)
(* and fed the trial's samples.  m and s are integers in units of 1/DS of  *)
(* a pressure unit, the normalised samples xn, rho and rho_std in units of *)
(* 1/CS, thr_k in hundredths, the template in units of 1/HS.               *)
(***************************************************************************)
DS == 100           \* EWMA baseline m and scale s

WS == 1000          \* the window t while __init__ builds it

\* np.cos(2*np.pi*k/n) in units of 1/WS, for the n = L-1 of the lengths
\* modelled (n <= 3), where the cosine is 1, -1 or -1/2.
CosTurn(k, n) ==
    IF k % n = 0 THEN WS
    ELSE IF 2 * (k % n) = n THEN -WS
    ELSE -(WS \div 2)

\* t = -0.5*(1 - np.cos(2*np.pi*np.arange(L)/(L-1)))
HannWindow(L) == [k \in 1..L |-> -((WS - CosTurn(k - 1, L - 1)) \div 2)]

\* t -= t.mean()
SubtractMean(t) ==
    LET mean == PyRound(SumSeq(t), Len(t))
    IN  [k \in 1..Len(t) |-> t[k] - mean]

\* t / max(np.linalg.norm(t), 1e-9), in units of 1/HS.
UnitNorm(t) ==
    LET norm == PyMax2(Sqrt(Dot(t, t)), 1)
    IN  [k \in 1..Len(t) |-> PyRound(t[k] * HS, norm)]

\* self.t: the negative Hann template of length L, mean-subtracted and
\* divided by its norm.
HannTemplate(L) == UnitNorm(SubtractMean(HannWindow(L))) \o <<>>

\* self.refractory = int(round(refractory_s*fs))
refractory(c) == PyRound(c.refractory_s * c.fs, TS)

\* A slip of the refractory branch: the count-down and the threshold test
\* share a sample, so the sample on which cooldown reaches 0 can fire.
DecideSameSample(c, cooldown, rho, rho_std) ==
    LET cd == IF cooldown > 0 THEN cooldown - 1 ELSE 0
    IN  IF cd = 0 /\ rho * 100 < -(c.thr_k * rho_std)
        THEN [detected |-> TRUE, cooldown |-> refractory(c)]
        ELSE [detected |-> FALSE, cooldown |-> cd]

\* The refractory branch of update(): count down, or test the threshold.
Decide(c, cooldown, rho, rho_std) ==
    IF cooldown > 0
    THEN [detected |-> FALSE, cooldown |-> cooldown - 1]
    ELSE IF rho * 100 < -(c.thr_k * rho_std)
         THEN [detected |-> TRUE, cooldown |-> refractory(c)]
         ELSE [detected |-> FALSE, cooldown |-> cooldown]

\* A slip of the start-up latch: the detector counts as started from its
\* first call, whatever the buffer holds.
LatchWithoutData(started, buf) == TRUE

\* update(): `if not self.started and any(abs(v) > 1e-12 for v in
\* buf_list): self.started = True`, the value of started after it.
Latch(started, buf) == started \/ (\E j \in 1..Len(buf) : buf[j] # 0)

\* A detector object kept across trials: the fields the previous trial left.
DipDetectorReused(c) ==
    IF dd_det = <<>>
    THEN [t |-> HannTemplate(c.L), m |-> 0, s |-> DS,
          buf |-> [j \in 1..c.L |-> 0], rho_std |-> CS,
          cooldown |-> 0, started |-> FALSE]
    ELSE dd_det

\* The fields of a DipDetector right after __init__.
DipDetector(c) ==
    [t |-> HannTemplate(c.L), m |-> 0, s |-> DS,
     buf |-> [j \in 1..c.L |-> 0], rho_std |-> CS,
     cooldown |-> 0, started |-> FALSE]

\* update(x) on a detector with fields d: the new fields and the returned
\* (rho, detected, sumxt); rho is None on the early return.
update(c, d, x) ==
    LET m == (98 * d.m + 2 * x * DS) \div 100
        dev == FAbs(x * DS - m)
        s == (98 * d.s + 2 * PyMax2(dev, 1)) \div 100
        xn == ((x * DS - m) * CS) \div PyMax2(s, 1)
        buf == Tail(d.buf) \o <<xn>>
        started == Latch(d.started, buf)
        sumxt == Dot(buf, d.t)
        sumx == SumSeq(buf)
        sumx2 == Dot(buf, buf)
        varx == PyMax2(sumx2 - (sumx * sumx) \div c.L, 1)
        rho == sumxt \div PyMax2(Sqrt(varx), 1)
        rho_std == (98 * d.rho_std + 2 * FAbs(rho)) \div 100
        dec == Decide(c, d.cooldown, rho, rho_std)
    IN  IF ~started
        THEN [det |-> [t |-> d.t, m |-> m, s |-> s, buf |-> buf,
                       rho_std |-> d.rho_std, cooldown |-> d.cooldown,
                       started |-> FALSE],
              rho |-> None, detected |-> FALSE, sumxt |-> 0]
        ELSE [det |-> [t |-> d.t, m |-> m, s |-> s, buf |-> buf,
                       rho_std |-> rho_std, cooldown |-> dec.cooldown,
                       started |-> TRUE],
              rho |-> rho, detected |-> dec.detected, sumxt |-> sumxt]

\* The pressure samples a trial can feed, whole units.
DDVals == {0, 100, 200}

\* evaluate_detector: `det = DipDetector(...)` and `detections = []` at the
\* head of a trial.
DDConstruct ==
    /\ dd_pc = "trial"
    /\ dd_tr < DDTrials
    /\ dd_det' = DipDetector(dd_cfg)
    /\ dd_detections' = <<>>
    /\ dd_i' = 0
    /\ dd_ret' = <<>>
    /\ dd_xs' = <<>>
    /\ dd_pc' = "samples"
    /\ UNCHANGED <<dd_cfg, dd_tr>>

\* The assignments of one iteration of `for i, x in enumerate(xs)`.
DDUpdate_assign(r) ==
    /\ dd_det' = r.det
    /\ dd_ret' = <<r.rho, r.detected, r.sumxt>>
    /\ dd_detections' = IF r.detected THEN Append(dd_detections, dd_i)
                        ELSE dd_detections

\* One sample of the trial: det.update(x), a detection is recorded.
DDUpdate ==
    /\ dd_pc = "samples"
    /\ dd_i < DDSamples
    /\ \E x \in DDVals : /\ DDUpdate_assign(update(dd_cfg, dd_det, x))
                          /\ dd_xs' = Append(dd_xs, x)
    /\ dd_i' = dd_i + 1
    /\ UNCHANGED <<dd_cfg, dd_tr, dd_pc>>

\* The samples of the trial are used up; the loop goes to the next trial.
DDTrialEnd ==
    /\ dd_pc = "samples"
    /\ dd_i = DDSamples
    /\ dd_tr' = dd_tr + 1
    /\ dd_pc' = "trial"
    /\ UNCHANGED <<dd_cfg, dd_det, dd_detections, dd_i, dd_ret, dd_xs>>

DDConfigs ==
    { [fs |-> f, L |-> len, thr_k |-> k, refractory_s |-> REFRACTORY_S]
      : f \in {1, 2}, len \in {2, 3, 4}, k \in {30, 250} }

DDInit ==
    /\ dd_cfg \in DDConfigs
    /\ dd_tr = 0
    /\ dd_det = <<>>
    /\ dd_detections = <<>>
    /\ dd_i = 0
    /\ dd_ret = <<>>
    /\ dd_xs = <<>>
    /\ dd_pc = "trial"

DDOff ==
    /\ dd_cfg = <<>> /\ dd_tr = 0 /\ dd_det = <<>> /\ dd_detections = <<>>
    /\ dd_i = 0 /\ dd_ret = <<>> /\ dd_xs = <<>> /\ dd_pc = "off"

serverVars == <<sess, rec, consumers, daq_q, db, called, srv>>
broadcastVars == <<clients, ws, send_tasks>>

(***************************************************************************)
(* The unified DAQ/RIG server of daq_sampling_websocket2.01.py: the two    *)
(* acquisition sessions, the recorder with its consumer tasks, the client  *)
(* commands of ws_handler and the shutdown path of main.  asyncio runs one *)
(* coroutine at a time, so a step is the code between two awaits.  A DAQ   *)
(* sample is carried as the value of recorder._recording at the moment it  *)
(* was produced; the RIG samples are not carried.                          *)
(***************************************************************************)
MaxPairs == 1       \* pairs of recorder consumer tasks in existence
QueueMax == 1       \* maxsize of daq_queue
BatchMax == 2       \* len(batch) that forces a flush
Sessions == {"daq", "rig"}
SessionCfgs == {1, 2}
StopOrder == <<"daq", "rig", "rec">>    \* main's finally block

\* An asyncio task: not created, created and not yet run, running, done;
\* `cancel` is a cancel() the task has not met yet at an await.
NoTask == [st |-> "none", cancel |-> FALSE, used |-> 0, at_start |-> 0]
DoneTask == [NoTask EXCEPT !.st = "done"]
NewTask(c) == [NoTask EXCEPT !.st = "pending", !.at_start = c]

\* A slip of the guard of configure() and start(): the task is never seen
\* as running.
TaskAliveNever(t) == FALSE

\* `self._task and not self._task.done()`
TaskAlive(t) == t.st \in {"pending", "running"}

\* task.cancel()
Cancel(t) == IF TaskAlive(t) THEN [t EXCEPT !.cancel = TRUE] ELSE t

\* A task ends: the stop() calls gathering it can resume.
Ended(x) == [x EXCEPT !.resumable = @ \cup x.waiting, !.waiting = {}]

(* DAQSession / RigSession *)
\* The session method ws_handler called last and the exception it raised.
Call(s, op, exc) == [who |-> s, op |-> op, exc |-> exc]

\* configure(**kwargs), called by ws_handler for configure_daq/configure_rig.
SessionConfigure(s) ==
    /\ srv.ws_open
    /\ \E v \in SessionCfgs :
          IF TaskAlive(sess[s].task)
          THEN /\ called' = Call(s, "configure", "RuntimeError")
               /\ UNCHANGED sess
          ELSE /\ sess' = [sess EXCEPT ![s].cfg = v]
               /\ called' = Call(s, "configure", "none")
    /\ UNCHANGED <<rec, consumers, daq_q, db, srv>>

\* start(), called for start_daq/start_rig.  A task that start() replaces
\* while it is alive goes on unreferenced (extra).
SessionStart(s) ==
    /\ srv.ws_open
    /\ IF s = "rig" /\ sess[s].cfg = 0
       THEN /\ called' = Call(s, "start", "RuntimeError")
            /\ UNCHANGED sess
       ELSE IF TaskAlive(sess[s].task)
       THEN /\ called' = Call(s, "start", "none")
            /\ UNCHANGED sess
       ELSE /\ sess' = [sess EXCEPT
                          ![s].running = TRUE,
                          ![s].task = NewTask(sess[s].cfg),
                          ![s].extra = IF sess[s].task.st
                                            \in {"pending", "running"}
                                       THEN 1 ELSE @]
            /\ called' = Call(s, "start", "none")
    /\ UNCHANGED <<rec, consumers, daq_q, db, srv>>

\* DAQSession.stop()/RigSession.stop() up to `await asyncio.gather(...)`;
\* without a task the whole call.
SessionStopBegin(s, by) ==
    /\ sess' = [sess EXCEPT
                  ![s] = IF sess[s].task.st = "none"
                         THEN [@ EXCEPT !.running = FALSE]
                         ELSE IF TaskAlive(sess[s].task)
                         THEN [@ EXCEPT !.running = FALSE,
                                        !.task = Cancel(@),
                                        !.waiting = @ \cup {by}]
                         ELSE [@ EXCEPT !.running = FALSE,
                                        !.resumable = @ \cup {by}]]
    /\ UNCHANGED <<rec, consumers, daq_q, db>>

\* stop() from the return of its gather on.
SessionStopEnd(s, by) ==
    /\ by \in sess[s].resumable
    /\ sess' = [sess EXCEPT ![s].resumable = @ \ {by}]
    /\ UNCHANGED <<rec, consumers, daq_q, db>>

\* _run() of a session from its start to its loop: the configuration is
\* read, the device or the serial port is opened (or an exception ends the
\* task); a task cancelled before it ran never runs.
RunFirst(s) ==
    /\ sess[s].task.st = "pending"
    /\ \E opened \in BOOLEAN :
          sess' = [sess EXCEPT ![s] =
                     IF sess[s].task.cancel \/ ~opened
                     THEN Ended([@ EXCEPT !.task = DoneTask])
                     ELSE [@ EXCEPT !.task.st = "running",
                                    !.task.used = sess[s].cfg]]
    /\ UNCHANGED <<rec, consumers, daq_q, db, called, srv>>

\* put_nowait on the recorder queue; QueueFull drops the sample.
Put(q, item) == IF Len(q) < QueueMax THEN Append(q, item) ELSE q

\* _run() of a session: one iteration of `while self._running.is_set()`
\* (DAQ: a chunk of one sample is put on the recorder queue), or the end
\* of the task.
RunLoop(s) ==
    /\ sess[s].task.st = "running"
    /\ IF sess[s].task.cancel \/ ~sess[s].running
       THEN /\ sess' = [sess EXCEPT ![s] = Ended([@ EXCEPT !.task = DoneTask])]
            /\ UNCHANGED daq_q
       ELSE /\ daq_q' = IF s = "daq" THEN Put(daq_q, rec.recording)
                        ELSE daq_q
            /\ UNCHANGED sess
    /\ UNCHANGED <<rec, consumers, db, called, srv>>

(* Recorder *)
\* The pair of consumer tasks self._task_daq/self._task_rig refer to.
Current == { p \in 1..Len(consumers) : consumers[p].ref }
PairDone(x) == ~TaskAlive(x.daq) /\ ~TaskAlive(x.rig)

\* The consumers still of interest: a pair whose tasks are done, that the
\* recorder does not refer to and that no stop() gathers is garbage.
RECURSIVE Compact(_)
Compact(ps) ==
    IF ps = <<>> THEN <<>>
    ELSE IF /\ PairDone(Head(ps)) /\ ~Head(ps).ref
            /\ Head(ps).waiting = {} /\ Head(ps).resumable = {}
         THEN Compact(Tail(ps))
         ELSE <<Head(ps)>> \o Compact(Tail(ps))

\* The pair after one of its tasks changed.
Settle(x) == IF PairDone(x) THEN Ended(x) ELSE x

\* configure(location, job_name), called for configure_recording.
RecorderConfigure ==
    /\ srv.ws_open
    /\ rec' = [rec EXCEPT !.configured = TRUE]
    /\ UNCHANGED <<sess, consumers, daq_q, db, called, srv>>

\* start(), called for start_recording.
RecorderStart ==
    /\ srv.ws_open
    /\ IF ~rec.configured
       THEN UNCHANGED <<rec, consumers>>
       ELSE IF \E p \in Current : TaskAlive(consumers[p].daq)
       THEN /\ rec' = [rec EXCEPT !.recording = TRUE]
            /\ UNCHANGED consumers
       ELSE /\ Len(consumers) < MaxPairs + Cardinality(Current)
            /\ rec' = [rec EXCEPT !.conn = TRUE, !.recording = TRUE,
                                  !.stop_evt = FALSE]
            /\ consumers' = Compact([p \in 1..Len(consumers) |->
                                    [consumers[p] EXCEPT !.ref = FALSE]])
                        \o <<[ref |-> TRUE, daq |-> NewTask(0),
                              rig |-> NewTask(0), batch |-> <<>>,
                              waiting |-> {}, resumable |-> {}]>>
    /\ UNCHANGED <<sess, daq_q, db, called, srv>>

\* pause(), called for pause_recording.
RecorderPause ==
    /\ srv.ws_open
    /\ rec' = [rec EXCEPT !.recording = FALSE]
    /\ UNCHANGED <<sess, consumers, daq_q, db, called, srv>>

\* stop() up to `await asyncio.gather(*tasks, ...)`; without tasks the
\* whole call.
RecorderStopBegin(by) ==
    /\ rec' = [rec EXCEPT !.recording = FALSE, !.stop_evt = TRUE,
                          !.conn = IF Current = {} THEN FALSE ELSE @]
    /\ consumers' = [p \in 1..Len(consumers) |->
                    IF ~consumers[p].ref THEN consumers[p]
                    ELSE IF PairDone(consumers[p])
                    THEN [consumers[p] EXCEPT !.resumable = @ \cup {by}]
                    ELSE [consumers[p] EXCEPT !.daq = Cancel(@),
                                          !.rig = Cancel(@),
                                          !.waiting = @ \cup {by}]]
    /\ UNCHANGED <<sess, daq_q, db>>

\* stop() from the return of its gather on: the task references are
\* dropped and the connection is closed.
RecorderStopEnd(by) ==
    /\ \E q \in 1..Len(consumers) :
          /\ by \in consumers[q].resumable
          /\ consumers' = Compact([p \in 1..Len(consumers) |->
                                  [consumers[p] EXCEPT
                                      !.ref = FALSE,
                                      !.resumable = IF p = q THEN @ \ {by}
                                                    ELSE @]])
    /\ rec' = [rec EXCEPT !.conn = FALSE]
    /\ UNCHANGED <<sess, daq_q, db>>

StopBegin(who, by) ==
    IF who = "rec" THEN RecorderStopBegin(by) ELSE SessionStopBegin(who, by)
StopEnd(who, by) ==
    IF who = "rec" THEN RecorderStopEnd(by) ELSE SessionStopEnd(who, by)

\* stop() has run to its end without an await.
StopsAtOnce(who) ==
    IF who = "rec" THEN Current = {} ELSE sess[who].task.st = "none"
InFlight(who, by) ==
    IF who = "rec"
    THEN \E p \in 1..Len(consumers) : by \in consumers[p].waiting \cup consumers[p].resumable
    ELSE by \in sess[who].waiting \cup sess[who].resumable

\* ws_handler: stop_daq, stop_rig, stop_recording of a client.
CmdStop(who) ==
    /\ srv.ws_open
    /\ ~InFlight(who, "client")
    /\ StopBegin(who, "client")
    /\ called' = IF who = "rec" THEN called ELSE Call(who, "stop", "none")
    /\ UNCHANGED srv

CmdStopReturns(who) ==
    /\ StopEnd(who, "client")
    /\ UNCHANGED <<called, srv>>

\* executemany + commit of a batch: the rows are in the table, or the
\* connection is closed, the exception is logged and the batch is gone.
Write(d, batch) ==
    IF batch = <<>> THEN d
    ELSE IF rec.conn
    THEN [d EXCEPT !.rows = @ \cup { batch[k] : k \in 1..Len(batch) }]
    ELSE [d EXCEPT !.lost = @ \/ srv.shutdown_evt]

\* _consume_daq/_consume_rig up to the loop: `assert self._conn is not None`;
\* a task cancelled before it ran never runs.
ConsumeFirst(p, m) ==
    /\ p \in 1..Len(consumers)
    /\ consumers[p][m].st = "pending"
    /\ consumers' = Compact([consumers EXCEPT ![p] =
                    Settle([@ EXCEPT ![m] =
                       IF consumers[p][m].cancel \/ ~rec.conn THEN DoneTask
                       ELSE [@ EXCEPT !.st = "running"]])])
    /\ UNCHANGED <<sess, rec, daq_q, db, called, srv>>

\* One iteration of the consumer loop: an item or a timeout, the batch, the
\* flush when the batch is due; or the end of the task with the flush of the
\* finally block.
ConsumeLoop(p, m) ==
    /\ p \in 1..Len(consumers)
    /\ consumers[p][m].st = "running"
    /\ IF consumers[p][m].cancel \/ rec.stop_evt
       THEN /\ db' = IF m = "daq" THEN Write(db, consumers[p].batch) ELSE db
            /\ consumers' = Compact([consumers EXCEPT ![p] =
                            Settle([@ EXCEPT ![m] = DoneTask,
                                             !.batch = IF m = "daq" THEN <<>>
                                                       ELSE @])])
            /\ UNCHANGED daq_q
       ELSE \E due \in BOOLEAN :
            \E item \in { IF m = "daq" /\ daq_q # <<>>
                          THEN <<Head(daq_q)>> ELSE <<>> } :
            \E batch \in { IF item # <<>> /\ rec.recording
                           THEN consumers[p].batch \o item
                           ELSE consumers[p].batch } :
               /\ daq_q' = IF item # <<>> THEN Tail(daq_q) ELSE daq_q
               /\ IF batch # <<>> /\ (due \/ Len(batch) >= BatchMax)
                  THEN /\ db' = Write(db, batch)
                       /\ consumers' = [consumers EXCEPT ![p].batch = <<>>]
                  ELSE /\ db' = db
                       /\ consumers' = [consumers EXCEPT ![p].batch = batch]
    /\ UNCHANGED <<sess, rec, called, srv>>

(* shutdown *)
\* ws_handler: the shutdown command.
CmdShutdown ==
    /\ srv.ws_open
    /\ ~srv.shutdown_evt
    /\ srv' = [srv EXCEPT !.shutdown_evt = TRUE]
    /\ UNCHANGED <<sess, rec, consumers, daq_q, db, called>>

\* main wakes from shutdown_evt.wait(): ws_server.close().
MainClose ==
    /\ srv.main_pc = "serving"
    /\ srv.shutdown_evt
    /\ srv' = [srv EXCEPT !.ws_open = FALSE, !.main_pc = "wait_closed"]
    /\ UNCHANGED <<sess, rec, consumers, daq_q, db, called>>

\* ws_server.wait_closed() returns when the connection handlers have ended.
MainWaitClosed ==
    /\ srv.main_pc = "wait_closed"
    /\ \A who \in {"daq", "rig", "rec"} : ~InFlight(who, "client")
    /\ srv' = [srv EXCEPT !.main_pc = "stop", !.i = 1]
    /\ UNCHANGED <<sess, rec, consumers, daq_q, db, called>>

AfterStop(i) == IF i < Len(StopOrder)
                THEN [srv EXCEPT !.main_pc = "stop", !.i = i + 1]
                ELSE [srv EXCEPT !.main_pc = "exit", !.i = 0]

\* main: await daq.stop(); await rig.stop(); await recorder.stop()
MainStop ==
    /\ srv.main_pc = "stop"
    /\ StopBegin(StopOrder[srv.i], "main")
    /\ srv' = IF StopsAtOnce(StopOrder[srv.i]) THEN AfterStop(srv.i)
              ELSE [srv EXCEPT !.main_pc = "await"]
    /\ UNCHANGED called

MainStopReturns ==
    /\ srv.main_pc = "await"
    /\ StopEnd(StopOrder[srv.i], "main")
    /\ srv' = AfterStop(srv.i)
    /\ UNCHANGED called

\* main returns and asyncio.run cancels the tasks that are left.
RunExit ==
    /\ srv.main_pc = "exit"
    /\ sess' = [s \in Sessions |-> [sess[s] EXCEPT !.task = Cancel(@)]]
    /\ consumers' = [p \in 1..Len(consumers) |->
                    [consumers[p] EXCEPT !.daq = Cancel(@), !.rig = Cancel(@)]]
    /\ srv' = [srv EXCEPT !.main_pc = "closed"]
    /\ UNCHANGED <<rec, daq_q, db, called>>

ServerInit ==
    /\ sess = [s \in Sessions |->
                 [cfg |-> IF s = "daq" THEN 1 ELSE 0, running |-> FALSE,
                  task |-> NoTask, extra |-> 0, waiting |-> {},
                  resumable |-> {}]]
    /\ rec = [configured |-> FALSE, conn |-> FALSE, recording |-> FALSE,
              stop_evt |-> FALSE]
    /\ consumers = <<>>
    /\ daq_q = <<>>
    /\ db = [rows |-> {}, lost |-> FALSE]
    /\ called = Call("none", "none", "none")
    /\ srv = [shutdown_evt |-> FALSE, ws_open |-> TRUE, main_pc |-> "serving",
              i |-> 0]

\* A session that is acquiring (configured, started, its task in the loop)
\* and one nobody has started.
Acquiring == [cfg |-> 1, running |-> TRUE,
              task |-> [NoTask EXCEPT !.st = "running", !.used = 1,
                                      !.at_start = 1],
              extra |-> 0, waiting |-> {}, resumable |-> {}]
Idle(s) == [cfg |-> IF s = "daq" THEN 1 ELSE 0, running |-> FALSE,
            task |-> NoTask, extra |-> 0, waiting |-> {}, resumable |-> {}]

\* The server with any subset of its two sessions acquiring.
ShutdownInit ==
    /\ sess \in { f \in [Sessions -> {Acquiring, Idle("daq"), Idle("rig")}] :
                    \A s \in Sessions : f[s] \in {Acquiring, Idle(s)} }
    /\ rec = [configured |-> FALSE, conn |-> FALSE, recording |-> FALSE,
              stop_evt |-> FALSE]
    /\ consumers = <<>>
    /\ daq_q = <<>>
    /\ db = [rows |-> {}, lost |-> FALSE]
    /\ called = Call("none", "none", "none")
    /\ srv = [shutdown_evt |-> FALSE, ws_open |-> TRUE, main_pc |-> "serving",
              i |-> 0]

ServerOff ==
    /\ sess = <<>> /\ rec = <<>> /\ consumers = <<>> /\ daq_q = <<>>
    /\ db = <<>> /\ called = <<>> /\ srv = <<>>

ConsumerStep == \E p \in 1..MaxPairs + 1 : \E m \in {"daq", "rig"} :
                   ConsumeFirst(p, m) \/ ConsumeLoop(p, m)
MainStep == MainClose \/ MainWaitClosed \/ MainStop \/ MainStopReturns
            \/ RunExit
SessionCmd == \E s \in Sessions :
                 SessionConfigure(s) \/ SessionStart(s) \/ CmdStop(s)
                 \/ CmdStopReturns(s)
RecorderCmd == RecorderConfigure \/ RecorderStart \/ RecorderPause
               \/ CmdStop("rec") \/ CmdStopReturns("rec")
ServerNext == SessionCmd \/ RecorderCmd \/ CmdShutdown \/ MainStep
              \/ (\E s \in Sessions : RunFirst(s) \/ RunLoop(s))
              \/ ConsumerStep

(***************************************************************************)
(* The broadcast servers with the global `clients` set                     *)
(* (daq_sampling_websocket.py, daq_sampling_websocket_old_working.py):     *)
(* ws_handler per connection, broadcast_data and its send_with_timeout     *)
(* tasks.                                                                  *)
(***************************************************************************)
MaxClients == 3
Websockets == 1..MaxClients

\* ws_handler up to its try block: clients.add(websocket) and the
\* acknowledgement, whose send raises when the peer is gone already.
WsHandlerEnters(c) ==
    /\ ws[c].pc = "none"
    /\ clients' = clients \cup {c}
    /\ \E open \in BOOLEAN :
          ws' = [ws EXCEPT ![c] = [pc |-> IF open THEN "serving"
                                          ELSE "raised before try",
                                   open |-> open]]
    /\ UNCHANGED send_tasks

\* The peer closes the connection.
PeerCloses(c) ==
    /\ ws[c].pc = "serving"
    /\ ws[c].open
    /\ ws' = [ws EXCEPT ![c].open = FALSE]
    /\ UNCHANGED <<clients, send_tasks>>

\* broadcast_data: `for client in list(clients): create_task(
\* send_with_timeout(client, message))`, once the tasks of the round before
\* are gathered.
BroadcastData ==
    /\ send_tasks = {}
    /\ clients # {}
    /\ send_tasks' = clients
    /\ UNCHANGED <<clients, ws>>

\* send_with_timeout(client, message): the send succeeds, or it times out or
\* raises and the client is discarded.  A closed connection cannot succeed.
SendWithTimeout(c) ==
    /\ c \in send_tasks
    /\ send_tasks' = send_tasks \ {c}
    /\ \E sent \in {TRUE, FALSE} :
          /\ sent => ws[c].open
          /\ clients' = IF sent THEN clients ELSE clients \ {c}
    /\ UNCHANGED ws

\* ws_handler's loop ends (the connection is closed, or handling a message
\* raised) and its finally block runs clients.remove(websocket): set.remove
\* raises KeyError for an element that is not in the set.
WsHandlerFinally(c) ==
    /\ ws[c].pc = "serving"
    /\ IF c \in clients
       THEN /\ clients' = clients \ {c}
            /\ ws' = [ws EXCEPT ![c] = [pc |-> "ended", open |-> FALSE]]
       ELSE /\ UNCHANGED clients
            /\ ws' = [ws EXCEPT ![c] = [pc |-> "KeyError", open |-> FALSE]]
    /\ UNCHANGED send_tasks

BroadcastInit ==
    /\ clients = {}
    /\ ws = [c \in Websockets |-> [pc |-> "none", open |-> FALSE]]
    /\ send_tasks = {}

BroadcastOff == clients = {} /\ ws = <<>> /\ send_tasks = {}


(***************************************************************************)
(* Specifications.                                                         *)
(***************************************************************************)
vars == <<streamVars, kmVars, smVars, cpVars, harnessVars, ddVars,
          serverVars, broadcastVars>>

\* The streaming application.
Init == StreamInit /\ KMOff /\ SMOff /\ CPOff /\ HOff
    /\ DDOff
    /\ ServerOff /\ BroadcastOff
Next == (ReplayRow \/ StdinLine \/ StdinBlank \/ WebsocketMsg)
        /\ UNCHANGED <<kmVars, smVars, cpVars, harnessVars, ddVars,
                     serverVars, broadcastVars>>
Spec == Init /\ [][Next]_vars

\* The streaming application started with --min_sep_s 0.
ZeroSeparationInit == StreamInitWith(ZeroSeparationConfigs)
    /\ KMOff /\ SMOff /\ CPOff /\ HOff /\ DDOff
    /\ ServerOff /\ BroadcastOff
SpecZeroSeparation == ZeroSeparationInit /\ [][Next]_vars

\* The batch Kalman/matched-filter detector applied to one series.
KMSpecInit == KMInit /\ StreamOff /\ SMOff /\ CPOff /\ HOff
    /\ DDOff
    /\ ServerOff /\ BroadcastOff
KMNext == (KMCluster \/ KMReturn)
          /\ UNCHANGED <<streamVars, smVars, cpVars, harnessVars, ddVars,
                     serverVars, broadcastVars>>
SpecBatchKalman == KMSpecInit /\ [][KMNext]_vars

\* The batch smoothed-minima detector applied to one series.
SMSpecInit == SMInit /\ StreamOff /\ KMOff /\ CPOff /\ HOff
    /\ DDOff
    /\ ServerOff /\ BroadcastOff
SMNext == (SMIter \/ SMIndexError \/ SMReturn)
          /\ UNCHANGED <<streamVars, kmVars, cpVars, harnessVars, ddVars,
                     serverVars, broadcastVars>>
SpecBatchMinima == SMSpecInit /\ [][SMNext]_vars

\* compute_periods_times applied to one index list and one time array.
CPSpecInit == CPInit /\ StreamOff /\ KMOff /\ SMOff /\ HOff
    /\ DDOff
    /\ ServerOff /\ BroadcastOff
CPNext == CPCall /\ UNCHANGED <<streamVars, kmVars, smVars, harnessVars, ddVars,
                     serverVars, broadcastVars>>
SpecPeriods == CPSpecInit /\ [][CPNext]_vars

\* The Monte Carlo harness: one run of main.
HSpecInit == HInit /\ StreamOff /\ KMOff /\ SMOff /\ CPOff
    /\ DDOff
    /\ ServerOff /\ BroadcastOff
HNext == (MainNextConfig \/ EvaluateTrial \/ TrialRaises \/ EvaluateReturn
          \/ MainReport \/ MainPlotKeyError)
         /\ UNCHANGED <<streamVars, kmVars, smVars, cpVars, ddVars,
                     serverVars, broadcastVars>>
SpecHarness == HSpecInit /\ [][HNext]_vars

\* The matching loop of evaluate_detector on time-ordered lists.
MatchingSpecInit == MatchingInit /\ StreamOff /\ KMOff /\ SMOff /\ CPOff
    /\ DDOff
    /\ ServerOff /\ BroadcastOff
MatchingNext == MatchCall
                /\ UNCHANGED <<streamVars, kmVars, smVars, cpVars, ddVars,
                     serverVars, broadcastVars>>
SpecMatching == MatchingSpecInit /\ [][MatchingNext]_vars

\* The trial loop of evaluate_detector with its DipDetector.
DDSpecInit == DDInit /\ StreamOff /\ KMOff /\ SMOff /\ CPOff /\ HOff
    /\ ServerOff /\ BroadcastOff
DDNext == (DDConstruct \/ DDUpdate \/ DDTrialEnd)
          /\ UNCHANGED <<streamVars, kmVars, smVars, cpVars, harnessVars,
                     serverVars, broadcastVars>>
SpecDipDetector == DDSpecInit /\ [][DDNext]_vars

\* The two acquisition sessions of the unified server under the commands of
\* its clients.
AllOff == StreamOff /\ KMOff /\ SMOff /\ CPOff /\ HOff /\ DDOff
ServerSpecInit == ServerInit /\ AllOff /\ BroadcastOff
SessionsNext == (SessionCmd \/ (\E s \in Sessions : RunFirst(s) \/ RunLoop(s)))
                /\ UNCHANGED <<streamVars, kmVars, smVars, cpVars,
                               harnessVars, ddVars, broadcastVars>>
SpecSessions == ServerSpecInit /\ [][SessionsNext]_vars

\* The recorder of the unified server with the DAQ session producing.
RecorderNext == (RecorderCmd \/ SessionStart("daq") \/ RunFirst("daq")
                 \/ RunLoop("daq") \/ ConsumerStep)
                /\ UNCHANGED <<streamVars, kmVars, smVars, cpVars,
                               harnessVars, ddVars, broadcastVars>>
SpecRecorder == ServerSpecInit /\ [][RecorderNext]_vars

\* The shutdown of the unified server: any subset of the two sessions is
\* acquiring, the recorder is under the commands of its clients, and the
\* event loop runs every task, main and every resumed handler again and
\* again (its ready queue is first in, first out).
ShutdownNext == (RecorderCmd \/ CmdShutdown \/ MainStep
                 \/ (\E s \in Sessions : RunLoop(s)) \/ ConsumerStep)
                /\ UNCHANGED <<streamVars, kmVars, smVars, cpVars,
                               harnessVars, ddVars, broadcastVars>>
EventLoopFairness ==
    /\ WF_vars(MainStep /\ ShutdownNext)
    /\ \A s \in Sessions : WF_vars(RunLoop(s) /\ ShutdownNext)
    /\ \A p \in 1..MaxPairs + 1 : \A m \in {"daq", "rig"} :
          WF_vars((ConsumeFirst(p, m) \/ ConsumeLoop(p, m)) /\ ShutdownNext)
    /\ WF_vars(CmdStopReturns("rec") /\ ShutdownNext)
ShutdownSpecInit == ShutdownInit /\ AllOff /\ BroadcastOff
SpecShutdown == ShutdownSpecInit /\ [][ShutdownNext]_vars /\ EventLoopFairness

\* The broadcast servers: connections, broadcast rounds, handler exits.
BroadcastNext == (BroadcastData
                  \/ \E c \in Websockets :
                        WsHandlerEnters(c) \/ PeerCloses(c)
                        \/ SendWithTimeout(c) \/ WsHandlerFinally(c))
                 /\ UNCHANGED <<streamVars, kmVars, smVars, cpVars,
                                harnessVars, ddVars, serverVars>>
BroadcastSpecInit == BroadcastInit /\ AllOff /\ ServerOff
SpecBroadcast == BroadcastSpecInit /\ [][BroadcastNext]_vars

(***************************************************************************)
(* Properties of the batch detectors.                                      *)
(***************************************************************************)
\* C2: every adjacent pair of the batch Kalman detections is at least
\* min_sep_samples apart, at every point of the peak-picking loop, also
\* right after a later cluster's best index overwrote the last detection.
C2_BatchKalmanMinSeparation ==
    \A k \in 1..(Len(km_dets) - 1) :
        km_dets[k + 1] - km_dets[k] >= min_sep_samples(km_cfg)

\* The last of two or more detections has just been overwritten.
C2_Witness ==
    /\ km_event = "replace"
    /\ Len(km_dets) >= 2

\* C3: every adjacent pair of the batch smoothed-minima indices is at least
\* round(min_sep_s*fs) apart, at every point of the loop, also right after
\* a more prominent candidate replaced the last accepted minimum.
C3_BatchMinimaMinSeparation ==
    \A k \in 1..(Len(sm_mins_idx) - 1) :
        sm_mins_idx[k + 1] - sm_mins_idx[k]
            >= PyRound(sm_cfg.min_sep_s * sm_cfg.fs, 10)

\* The last of two or more accepted minima has just been replaced.
C3_Witness ==
    /\ sm_event = "replace"
    /\ Len(sm_mins_idx) >= 2

(***************************************************************************)
(* Properties of the period/speed computer.                                *)
(***************************************************************************)
\* C6: for an index list of length n >= 2 compute_periods_times returns
\* exactly n-1 periods and n-1 speeds, period k is the time at index k+1
\* minus the time at index k, and speed k is the reciprocal of period k
\* (to the last digit kept; the IEEE quotient inf for a zero period); for
\* n < 2 it returns three empty arrays.
C6_PeriodsAndSpeeds ==
    cp_pc = "returned" =>
        IF Len(cp_indices) < 2
        THEN /\ cp_ret.periods = <<>>
             /\ cp_ret.speeds = <<>>
             /\ cp_ret.det_times = <<>>
        ELSE /\ Len(cp_ret.periods) = Len(cp_indices) - 1
             /\ Len(cp_ret.speeds) = Len(cp_indices) - 1
             /\ \A k \in 1..(Len(cp_indices) - 1) :
                   /\ cp_ret.periods[k] = cp_times[cp_indices[k + 1] + 1]
                                          - cp_times[cp_indices[k] + 1]
                   /\ cp_ret.periods[k] = 0 => cp_ret.speeds[k] = Inf
                   /\ cp_ret.periods[k] # 0 =>
                         FAbs(cp_ret.speeds[k] * cp_ret.periods[k] - SS * TS)
                             < FAbs(cp_ret.periods[k])

\* Three or more detections with two different periods have been processed.
C6_Witness ==
    /\ cp_pc = "returned"
    /\ Len(cp_indices) >= 3
    /\ Len(cp_ret.periods) = Len(cp_indices) - 1
    /\ cp_ret.periods[1] > 0
    /\ cp_ret.periods[2] > cp_ret.periods[1]

(***************************************************************************)
(* Properties of the Monte Carlo harness.                                  *)
(***************************************************************************)
\* C9: a trial that raises does not abort the sweep: the exception of a
\* trial never leaves main.
C9_TrialFailureIsolated ==
    h_pc # "raised in trial"

\* C10: the totals evaluate_detector returned for a configuration are the
\* totals of every permutation of its per-trial result list.
C10_AggregationOrderIndependent ==
    \A key \in DOMAIN h_summary :
        LET res == h_summary[key]
            n == Len(res.per_trial)
        IN  \A p \in Permutations(1..n) :
                LET permuted == [k \in 1..n |-> res.per_trial[p[k]]]
                IN  /\ SumField(permuted, "tp") = res.tp
                    /\ SumField(permuted, "fp") = res.fp
                    /\ SumField(permuted, "fn") = res.fn
                    /\ SumField(permuted, "n_dips") = res.dips
                    /\ SumField(permuted, "n_detections") = res.detections

\* A configuration has been aggregated from two trials whose results differ
\* in every count.
C10_Witness ==
    \E key \in DOMAIN h_summary :
        LET r == h_summary[key].per_trial
        IN  /\ Len(r) >= 2
            /\ r[1].tp # r[2].tp
            /\ r[1].fp # r[2].fp
            /\ r[1].fn # r[2].fn
            /\ r[1].n_dips # r[2].n_dips
            /\ r[1].n_detections # r[2].n_detections

\* C11: in every per-trial result and in every aggregate, tp + fp is the
\* number of detections, tp + fn the number of true events and
\* 0 <= tp <= min of the two; for the latest trial fp counts exactly the
\* detections left unmatched and fn the dip starts left unmatched; every
\* TPR of the summary table lies in [0, 1].
C11_HarnessCountsConsistent ==
    /\ \A results \in {h_results} \cup { h_summary[key].per_trial
                                          : key \in DOMAIN h_summary } :
          \A k \in 1..Len(results) :
              /\ results[k].tp + results[k].fp = results[k].n_detections
              /\ results[k].tp + results[k].fn = results[k].n_dips
              /\ 0 <= results[k].tp
              /\ results[k].tp <= results[k].n_detections
              /\ results[k].tp <= results[k].n_dips
    /\ h_results # <<>> =>
          /\ h_results[Len(h_results)].fp
                = Len(h_detections)
                  - Cardinality({ h_match.pairs[n][1]
                                  : n \in 1..Len(h_match.pairs) })
          /\ h_results[Len(h_results)].fn
                = Len(h_dip_starts) - Cardinality(h_match.matched)
    /\ \A key \in DOMAIN h_summary :
          /\ h_summary[key].tp + h_summary[key].fp = h_summary[key].detections
          /\ h_summary[key].tp + h_summary[key].fn = h_summary[key].dips
          /\ 0 <= h_summary[key].tp
          /\ h_summary[key].tp <= h_summary[key].detections
          /\ h_summary[key].tp <= h_summary[key].dips
    /\ \A n \in 1..Len(h_rows) : 0 <= h_rows[n].TPR /\ h_rows[n].TPR <= SS

\* The summary table has been written for a configuration with true
\* positives, false positives and false negatives, and a trial of it had
\* more detections than dip starts.
C11_Witness ==
    /\ h_pc = "done"
    /\ \E n \in 1..Len(h_rows) :
          /\ h_rows[n].TP > 0 /\ h_rows[n].FP > 0 /\ h_rows[n].FN > 0
          /\ h_rows[n].TPR > 0 /\ h_rows[n].TPR < SS
    /\ \E key \in DOMAIN h_summary :
          \E k \in 1..Len(h_summary[key].per_trial) :
              h_summary[key].per_trial[k].n_detections
                  > h_summary[key].per_trial[k].n_dips

\* C12: in the matching of the latest trial every detection and every dip
\* start occurs in at most one matched pair, the two times of a pair differ
\* by at most TP_TOL_S, each matched detection took the lowest-index dip
\* start within the tolerance that no earlier detection had taken, and an
\* unmatched detection had no such dip start left.
C12_GreedyMatching ==
    LET pairs == h_match.pairs
        near(k) == { j \in 0..(Len(h_dip_starts) - 1) :
                       /\ h_dip_starts[j + 1] - h_detections[k + 1]
                              <= h_cfg.TP_TOL_S
                       /\ h_detections[k + 1] - h_dip_starts[j + 1]
                              <= h_cfg.TP_TOL_S }
        taken_before(k) == { pairs[m][2] : m \in { m \in 1..Len(pairs) :
                                                     pairs[m][1] < k } }
    IN  /\ \A m, n \in 1..Len(pairs) :
              m # n => pairs[m][1] # pairs[n][1] /\ pairs[m][2] # pairs[n][2]
        /\ h_match.tp = Len(pairs)
        /\ h_match.matched = { pairs[m][2] : m \in 1..Len(pairs) }
        /\ \A m \in 1..Len(pairs) :
              /\ pairs[m][1] \in 0..(Len(h_detections) - 1)
              /\ pairs[m][2] \in near(pairs[m][1]) \ taken_before(pairs[m][1])
              /\ \A j \in near(pairs[m][1]) \ taken_before(pairs[m][1]) :
                    pairs[m][2] <= j
        /\ \A k \in 0..(Len(h_detections) - 1) :
              (\A m \in 1..Len(pairs) : pairs[m][1] # k)
                  => near(k) \ taken_before(k) = {}

\* Two pairs were matched; the second detection had both dip starts within
\* the tolerance, found the first one taken and took the second.
C12_Witness ==
    /\ Len(h_match.pairs) >= 2
    /\ h_match.pairs[1] = <<0, 0>>
    /\ h_match.pairs[2] = <<1, 1>>
    /\ h_detections[2] - h_dip_starts[1] <= h_cfg.TP_TOL_S
    /\ h_detections[2] - h_dip_starts[2] <= h_cfg.TP_TOL_S

(***************************************************************************)
(* Properties of KalmanMatchedBankStream.                                  *)
(***************************************************************************)
\* C13: a process() call whose sample value is <= tractor_on_threshold
\* leaves recent_best, robust_med and robust_mad unchanged, and robust_med
\* and robust_mad keep their initial values 0.0 and 1.0 as long as
\* recent_best holds fewer than 5 values.
C13_RobustStatsOnlyWhileActive ==
    /\ [](Len(recent_best) < 5 => (robust_med = 0 /\ robust_mad = CS))
    /\ [][(/\ new_stream_sample_idx' # new_stream_sample_idx
           /\ IsFinite(last_call'[2])
           /\ last_call'[2] <= cfg.tractor_on_thr)
          => UNCHANGED <<recent_best, robust_med, robust_mad>>]_vars

\* The latest process() call had a sample value below the threshold while
\* recent_best already held values of earlier active samples.
C13_Witness ==
    /\ last_call # <<>>
    /\ IsFinite(last_call[2])
    /\ last_call[2] <= cfg.tractor_on_thr
    /\ Len(recent_best) >= 3

\* C17: the Kalman baseline moves toward the sample it is given and never
\* past it: the first sample initialises b to itself, and every later
\* update leaves |b - x| no larger than it was, so on a constant signal
\* x = c the distance |b - c| never grows and b equals c after every update.
C17_BaselineConvergesOnConstantSignal ==
    [][(new_stream_sample_idx' # new_stream_sample_idx
          /\ IsFinite(last_call'[2])) =>
         /\ b = None => b' = last_call'[2]
         /\ (b # None /\ IsFinite(b)) =>
              /\ FAbs(b' - last_call'[2]) <= FAbs(b - last_call'[2])
              /\ b = last_call'[2] => b' = b]_vars

\* A constant signal has filled the residual buffer: every residual is 0
\* and the baseline sits on the sample.
C17_Witness ==
    /\ new_stream_sample_idx >= maxL(cfg)
    /\ b = last_call[2]
    /\ IsFinite(b)
    /\ \A i \in 0..maxL(cfg) - 1 : res_buf[i] = 0

\* C19: process emits a detection at the current sample exactly when the
\* sample is active, z is finite and below z_thresh, and no detection was
\* accepted before or the last one is at least min_sep_samples back; an
\* accepting call sets last_det_idx to the current index, any other call
\* leaves it, so a later, more negative z inside the refractory window
\* neither replaces nor re-triggers the detection.
C19_StreamAcceptanceRule ==
    [][new_stream_sample_idx' # new_stream_sample_idx =>
        \A z \in {process_result(last_call'[1], last_call'[2]).z} :
            IF /\ FGt(last_call'[2], cfg.tractor_on_thr)
               /\ IsFinite(z)
               /\ z < cfg.z_thresh
               /\ \/ w_new = <<>>
                  \/ new_stream_sample_idx' - last_det_idx
                         >= min_sep_samples(cfg)
            THEN /\ w_new' = Append(w_new, w_new'[Len(w_new')])
                 /\ w_new'[Len(w_new')].idx = new_stream_sample_idx'
                 /\ last_det_idx' = new_stream_sample_idx'
            ELSE /\ w_new' = w_new
                 /\ last_det_idx' = last_det_idx]_vars

\* A second detection has just been accepted, and the call before it was
\* inside the refractory window of the first.
C19_Witness ==
    /\ Len(w_new) >= 2
    /\ last_det_idx = new_stream_sample_idx
    /\ w_new[2].idx = last_det_idx
    /\ w_new[2].idx - w_new[1].idx >= 2

\* C26: a push advances the write index modulo maxL and overwrites the
\* oldest residual only, so the cell k places behind the write index holds
\* the residual pushed k calls ago; for every template length L <= maxL the
\* reconstructed window lists the L most recent residuals oldest first,
\* also when it wraps and when L = maxL; and a detection made with template
\* k comes only after L_list[k] residuals have been seen.
C26_ResidualRingBuffer ==
    /\ [](\A n \in 1..Len(w_new) :
            w_new[n].idx + 1 >= L_list(cfg)[w_new[n].template_idx + 1])
    /\ [][new_stream_sample_idx' # new_stream_sample_idx =>
            /\ res_idx' = (res_idx + 1) % maxL(cfg)
            /\ res_buf' = [res_buf EXCEPT
                             ![res_idx'] = FSub(last_call'[2], b')]
            /\ \A L \in 1..maxL(cfg) :
                 \A win \in {Window(res_buf', res_idx', L)} :
                     /\ Len(win) = L
                     /\ \A j \in 1..L :
                          win[j] = res_buf'[(res_idx' - (L - j)) % maxL(cfg)]]_vars

\* The buffer has wrapped: more than maxL residuals were pushed, the write
\* index is back at the front, and the window of the longest template runs
\* over the end of the buffer.
C26_Witness ==
    /\ new_stream_sample_idx >= maxL(cfg)
    /\ res_idx < maxL(cfg) - 1
    /\ res_buf[res_idx] # res_buf[(res_idx + 1) % maxL(cfg)]
    /\ \E k \in 1..cfg.n_templates : L_list(cfg)[k] = maxL(cfg)

\* C27: on a sample with an eligible template the reported best_corr is the
\* correlation of template best_k, no eligible template has a smaller
\* correlation, and no template of a lower index has the same one; with no
\* eligible template best_corr is NaN, best_k is -1 and nothing is emitted.
\* An emitted detection carries best_k and best_corr.
C27_BestTemplateSelection ==
    [][new_stream_sample_idx' # new_stream_sample_idx =>
        \A corrs \in {Corrs(res_buf', res_idx', new_stream_sample_idx')} :
        \A best \in {BestFrom(corrs, Eligible(new_stream_sample_idx'), 1,
                              [best_corr |-> NaN, best_k |-> -1])} :
            /\ IF \E k \in 1..cfg.n_templates :
                     new_stream_sample_idx' >= L_list(cfg)[k] - 1
               THEN /\ best.best_k \in 0..cfg.n_templates - 1
                    /\ new_stream_sample_idx'
                         >= L_list(cfg)[best.best_k + 1] - 1
                    /\ best.best_corr = corrs[best.best_k + 1]
                    /\ \A k \in 1..cfg.n_templates :
                         (new_stream_sample_idx' >= L_list(cfg)[k] - 1
                            /\ IsFinite(corrs[k]))
                         => /\ IsFinite(best.best_corr)
                            /\ best.best_corr <= corrs[k]
                            /\ best.best_corr = corrs[k]
                                 => best.best_k + 1 <= k
               ELSE /\ IsNaN(best.best_corr)
                    /\ best.best_k = -1
                    /\ w_new' = w_new
            /\ w_new' # w_new =>
                 /\ w_new'[Len(w_new')].template_idx = best.best_k
                 /\ w_new'[Len(w_new')].corr = best.best_corr]_vars

\* A detection was emitted for the second template, whose correlation was
\* strictly below the first one's.
C27_Witness ==
    /\ w_new # <<>>
    /\ w_new[Len(w_new)].template_idx = 1
    /\ w_new[Len(w_new)].idx = new_stream_sample_idx

(***************************************************************************)
(* Properties of the batch detectors, continued.                           *)
(***************************************************************************)
\* C14: a too-small window is clamped upward rather than rejected: the
\* moving-average window of smoothed_minima_method is at least 1 and the
\* call does not end in an exception because of the window it was given.
C14_SmallWindowClampedNotRejected ==
    sm_pc # "off" => (w(sm_cfg) >= 1 /\ sm_pc # "IndexError")

(***************************************************************************)
(* Properties of DipDetector.                                              *)
(***************************************************************************)
\* C15: a detection at sample i blocks the samples i+1 .. i+refractory, so
\* two detections of a trial are more than refractory samples apart;
\* cooldown stays within 0..refractory, and an update() that finds it
\* positive lowers it by exactly 1.
C15_RefractoryBlocksAndCountsDown ==
    /\ [](dd_pc = "samples" =>
            /\ dd_det.cooldown \in 0..refractory(dd_cfg)
            /\ \A k \in 1..Len(dd_detections) - 1 :
                 dd_detections[k + 1] - dd_detections[k]
                     >= refractory(dd_cfg) + 1)
    /\ [][(dd_pc = "samples" /\ dd_i' = dd_i + 1 /\ dd_det.cooldown > 0) =>
            /\ dd_det'.cooldown = dd_det.cooldown - 1
            /\ dd_detections' = dd_detections]_vars

\* A trial with two detections exactly refractory + 1 samples apart, the
\* second one just made.
C15_Witness ==
    /\ dd_pc = "samples"
    /\ Len(dd_detections) >= 2
    /\ dd_detections[2] - dd_detections[1] = refractory(dd_cfg) + 1
    /\ dd_det.cooldown = refractory(dd_cfg)
    /\ refractory(dd_cfg) > 0

\* The detector and the detection indices that samples xs[k..] give when
\* fed to the detector d that has made the detections dets.
RECURSIVE FeedFrom(_, _, _, _, _)
FeedFrom(c, d, xs, k, dets) ==
    IF k > Len(xs) THEN [det |-> d, detections |-> dets]
    ELSE LET r == update(c, d, xs[k])
         IN  FeedFrom(c, r.det, xs, k + 1,
                      IF r.detected THEN Append(dets, k - 1) ELSE dets)

\* C16: trials share no detector state: in every trial the detector and the
\* detections are those a freshly constructed DipDetector (cooldown 0, not
\* started, initial m, s, rho_std, zero buffer) gives on this trial's
\* samples alone, whichever trials ran before.
C16_TrialsShareNoDetectorState ==
    dd_pc = "samples" =>
        /\ dd_i = 0 => /\ dd_det.cooldown = 0
                       /\ dd_det.started = FALSE
                       /\ dd_det.m = 0 /\ dd_det.s = DS /\ dd_det.rho_std = CS
                       /\ dd_det.buf = [j \in 1..dd_cfg.L |-> 0]
        /\ LET fresh == [t |-> dd_det.t, m |-> 0, s |-> DS, rho_std |-> CS,
                         buf |-> [j \in 1..dd_cfg.L |-> 0],
                         cooldown |-> 0, started |-> FALSE]
               r == FeedFrom(dd_cfg, fresh, dd_xs, 1, <<>>)
           IN  dd_det = r.det /\ dd_detections = r.detections

\* A later trial that has made a detection and is still in its refractory
\* period.
C16_Witness ==
    /\ dd_pc = "samples"
    /\ dd_tr >= 1
    /\ Len(dd_detections) >= 1
    /\ dd_det.cooldown > 0
    /\ dd_i > dd_detections[Len(dd_detections)] + 1

\* The mean and the L2 norm of a template are 0 and 1 to within the
\* resolution of the grid: the sum is within one unit per entry of 0, the
\* squared norm within 2 per cent of HS * HS.
TemplateInvariants(h) ==
    /\ FAbs(SumSeq(h)) <= Len(h)
    /\ 50 * FAbs(Dot(h, h) - HS * HS) <= HS * HS

\* C18: every template that is generated has mean 0 and L2 norm 1: here
\* the template self.t of every DipDetector that evaluate_detector
\* constructs.
C18_TemplateZeroMeanUnitNorm ==
    dd_det # <<>> => TemplateInvariants(dd_det.t)

\* Sample indices a and c lie in one maximal run of contiguous candidates.
SameRun(a, c) ==
    \A n \in (IF a <= c THEN a ELSE c)..(IF a <= c THEN c ELSE a) :
        \E k \in 1..Len(km_candidates) : km_candidates[k] = n

\* C20: of every maximal run of contiguous candidates at most one index is
\* among the detections, and one that is has the most negative z of its
\* run, the first such index on ties.
C20_BestOfCluster ==
    km_pc # "off" =>
        /\ \A k, l \in 1..Len(km_dets) :
             SameRun(km_dets[k], km_dets[l]) => k = l
        /\ \A k \in 1..Len(km_dets) : \A n \in 1..Len(km_candidates) :
             SameRun(km_dets[k], km_candidates[n]) =>
                 \/ km_z_corr[km_dets[k] + 1] < km_z_corr[km_candidates[n] + 1]
                 \/ /\ km_z_corr[km_dets[k] + 1] = km_z_corr[km_candidates[n] + 1]
                    /\ km_dets[k] <= km_candidates[n]

\* The function returned a detection that is neither the first nor the
\* last index of its run of candidates.
C20_Witness ==
    /\ km_pc = "returned"
    /\ \E k \in 1..Len(km_dets) :
         /\ SameRun(km_dets[k], km_dets[k] - 1)
         /\ SameRun(km_dets[k], km_dets[k] + 1)

(***************************************************************************)
(* The two Kalman peak pickers on one z-score/activity sequence.           *)
(***************************************************************************)
\* A refractory test that asks for two samples more than min_sep_samples.
EarliestWinsAcceptLate(last, idx, min_sep) ==
    last < 0 \/ idx - last >= min_sep + 2

\* process(), line 209: no detection yet, or min_sep_samples have passed.
EarliestWinsAccept(last, idx, min_sep) ==
    last < 0 \/ idx - last >= min_sep

\* The streaming picker (process(), lines 206-213) run over the qualifying
\* samples cands[k..] with last_det_idx = last: the indices it emits.
RECURSIVE EarliestWinsFrom(_, _, _, _)
EarliestWinsFrom(cands, k, last, min_sep) ==
    IF k > Len(cands) THEN <<>>
    ELSE IF EarliestWinsAccept(last, cands[k], min_sep)
         THEN <<cands[k]>> \o EarliestWinsFrom(cands, k + 1, cands[k], min_sep)
         ELSE EarliestWinsFrom(cands, k + 1, last, min_sep)
EarliestWins(cands, min_sep) == EarliestWinsFrom(cands, 1, -1, min_sep)

\* The qualifying samples are isolated and farther apart than min_sep.
IsolatedCandidates(cands, min_sep) ==
    \A k \in 1..Len(cands) - 1 :
        /\ cands[k + 1] - cands[k] >= 2
        /\ cands[k + 1] - cands[k] > min_sep

\* C21: on a sequence whose qualifying samples are all isolated and farther
\* apart than min_sep_samples, the batch picker (best of cluster, then
\* separation) returns the indices the streaming picker (earliest wins)
\* emits on the same sequence.
C21_PickersAgreeOnIsolatedCandidates ==
    (km_pc = "returned"
       /\ IsolatedCandidates(km_candidates, min_sep_samples(km_cfg)))
    => km_dets = EarliestWins(km_candidates, min_sep_samples(km_cfg))

\* A sequence with a contiguous run of qualifying samples on which the two
\* pickers return different index sets.
C21_Witness ==
    /\ km_pc = "returned"
    /\ \E k \in 1..Len(km_candidates) - 1 :
         km_candidates[k + 1] - km_candidates[k] = 1
    /\ {km_dets[k] : k \in 1..Len(km_dets)}
         # {EarliestWins(km_candidates, min_sep_samples(km_cfg))[k] :
              k \in 1..Len(EarliestWins(km_candidates,
                                        min_sep_samples(km_cfg)))}

(***************************************************************************)
(* Properties of the smoothed-minima detectors.                            *)
(***************************************************************************)
\* C22: in the batch smoothed-minima detector a qualifying candidate i that
\* comes fewer than min_sep samples after the last accepted minimum p
\* replaces p when its prominence is strictly greater than p's and is
\* dropped otherwise; either way the number of accepted minima and every
\* earlier accepted minimum stay as they were.
C22_BatchDeeperDipWins ==
    [][(/\ sm_pc = "loop" /\ sm_i' = sm_i + 1
        /\ sm_mins_idx # <<>>
        /\ sm_x[sm_i + 1] > sm_cfg.tractor_on_thr
        /\ IsMinimum(sm_y, sm_i)
        /\ Depth(sm_y, sm_i, halfwin(sm_cfg))
             >= w(sm_cfg) * sm_cfg.prominence_psi
        /\ sm_i - sm_mins_idx[Len(sm_mins_idx)]
             < PyRound(sm_cfg.min_sep_s * sm_cfg.fs, 10))
       => /\ Len(sm_mins_idx') = Len(sm_mins_idx)
          /\ \A k \in 1..Len(sm_mins_idx) - 1 :
               sm_mins_idx'[k] = sm_mins_idx[k]
          /\ sm_mins_idx'[Len(sm_mins_idx)] =
               IF Depth(sm_y, sm_i, halfwin(sm_cfg))
                    > Depth(sm_y, sm_mins_idx[Len(sm_mins_idx)],
                            halfwin(sm_cfg))
               THEN sm_i
               ELSE sm_mins_idx[Len(sm_mins_idx)]]_vars

\* A more prominent candidate has just replaced the last accepted minimum,
\* which came after an earlier one that was kept.
C22_Witness ==
    /\ sm_event = "replace"
    /\ Len(sm_mins_idx) >= 2
    /\ sm_mins_idx[Len(sm_mins_idx)] = sm_i - 1
    /\ sm_pc = "loop"

\* C23: in the streaming smoothed-minima detector a qualifying candidate that
\* comes fewer than min_sep samples after the previously accepted detection
\* and is more prominent than it replaces that detection: the last written
\* row then carries the candidate's index, and no row is added.
C23_StreamDeeperDipWins ==
    [][sample_idx' # sample_idx =>
        LET seq == smoothed_history'
            cand_idx == sample_idx' - Lag(Len(seq))
            prev == Len(seq) \div 2 - (cand_idx - last_old_det)
        IN  (/\ Len(seq) >= 3
             /\ FGt(last_call'[2], cfg.tractor_on_thr)
             /\ FGe(HistDepth(seq, Len(seq) \div 2), cfg.prominence_psi)
             /\ last_old_det >= 0
             /\ cand_idx > last_old_det
             /\ cand_idx - last_old_det < PyRound(cfg.min_sep_s * cfg.fs, 10)
             /\ prev >= 0
             /\ FGt(HistDepth(seq, Len(seq) \div 2), HistDepth(seq, prev)))
            => /\ Len(w_old') = Len(w_old)
               /\ w_old' # <<>>
               /\ w_old'[Len(w_old')].idx = cand_idx]_vars

\* C24: every accepted candidate of the smoothed-minima detector is a strict
\* local minimum of the smoothed signal, below both of its neighbours, and
\* its prominence is at least the prominence threshold: here for the
\* accepted minima of the batch form.
C24_AcceptedIsStrictLocalMinimum ==
    sm_pc \in {"loop", "returned"} =>
        \A k \in 1..Len(sm_mins_idx) :
            /\ sm_y[sm_mins_idx[k] + 1] < sm_y[sm_mins_idx[k]]
            /\ sm_y[sm_mins_idx[k] + 1] < sm_y[sm_mins_idx[k] + 2]
            /\ Depth(sm_y, sm_mins_idx[k], halfwin(sm_cfg))
                 >= w(sm_cfg) * sm_cfg.prominence_psi

\* C25: a detection written by the streaming smoothed-minima detector with
\* candidate index c has a raw sample above tractor_on_thr at index c.  The
\* raw sample of index c is read from ma_buf, which holds the last w raw
\* samples, whenever the lag of c is less than w.
C25_ActivityGateAtTheEvent ==
    [][(/\ Len(w_old') = Len(w_old) + 1
        /\ Lag(Len(smoothed_history')) < Len(ma_buf'))
       => FGt(ma_buf'[Len(ma_buf') - Lag(Len(smoothed_history'))],
              cfg.tractor_on_thr)]_vars

\* C28: at every callback the candidate index is sample_idx - lag with
\* lag = N - 1 - floor(N/2), N the length of the smoothed history; it lies
\* in 0..sample_idx and never decreases from one callback to the next; a
\* row that is written carries it, with the time t - lag/fs (time stamps
\* count sample periods).
C28_BackShiftedEventPosition ==
    [][sample_idx' # sample_idx =>
        /\ sample_idx' - Lag(Len(smoothed_history')) \in 0..sample_idx'
        /\ smoothed_history # <<>> =>
             sample_idx' - Lag(Len(smoothed_history'))
               >= sample_idx - Lag(Len(smoothed_history))
        /\ w_old' # w_old =>
             /\ w_old'[Len(w_old')].idx
                  = sample_idx' - Lag(Len(smoothed_history'))
             /\ w_old'[Len(w_old')].t
                  = FSub(last_call'[1], Lag(Len(smoothed_history')))]_vars

\* A row has just been written from a full smoothed history, more than one
\* sample behind the current one.
C28_Witness ==
    /\ Len(smoothed_history) = 2 * halfwin(cfg) + 5
    /\ w_old # <<>>
    /\ w_old[Len(w_old)].idx = sample_idx - Lag(Len(smoothed_history))
    /\ Lag(Len(smoothed_history)) >= 2
    /\ IsFinite(w_old[Len(w_old)].t)

\* C29: the streaming moving average is the mean of exactly the samples
\* received so far while fewer than w have been received, and the mean of
\* the last w samples afterwards: with k = min(samples received, w), the
\* latest smoothed value is the sum of the last k received samples (the
\* last k entries of ma_buf) divided by k.
C29_PartialSmoothingWithoutPlaceholders ==
    (last_call # <<>> /\ AllFinite(ma_buf) /\ IsFinite(ma_sum)) =>
        LET k == IF sample_idx + 1 < w(cfg) THEN sample_idx + 1 ELSE w(cfg)
        IN  smoothed_history[Len(smoothed_history)]
              = FDiv(SumSeq(SubSeq(ma_buf, Len(ma_buf) - k + 1, Len(ma_buf))),
                     k)

\* The indices of a list of detections are strictly increasing.
StrictlyIncreasing(idx) == \A k \in 1..Len(idx) - 1 : idx[k] < idx[k + 1]

\* C30: in every detector form and for every min_sep_samples >= 0 the
\* sample indices of the accepted detections are strictly increasing in
\* emission order, so no index is reported twice.
C30_DetectionIndicesStrictlyIncreasing ==
    /\ StrictlyIncreasing([k \in 1..Len(w_old) |-> w_old[k].idx])
    /\ StrictlyIncreasing([k \in 1..Len(w_new) |-> w_new[k].idx])
    /\ StrictlyIncreasing(sm_mins_idx)
    /\ StrictlyIncreasing(km_dets)
    /\ StrictlyIncreasing(dd_detections)

(***************************************************************************)
(* Optimality of the harness's matching.                                   *)
(***************************************************************************)
\* The size of a largest one-to-one matching of detections k.. with the dip
\* starts outside `used`, a pair being allowed when its two times differ by
\* at most tol_s: detection k is left out or takes any allowed dip start.
RECURSIVE MaxMatchingFrom(_, _, _, _, _)
MaxMatchingFrom(detections, dip_starts, tol_s, k, used) ==
    IF k > Len(detections) THEN 0
    ELSE LET allowed == { j \in 0..(Len(dip_starts) - 1) \ used :
                            /\ dip_starts[j + 1] - detections[k] <= tol_s
                            /\ detections[k] - dip_starts[j + 1] <= tol_s }
             skip == MaxMatchingFrom(detections, dip_starts, tol_s, k + 1,
                                     used)
             take == { 1 + MaxMatchingFrom(detections, dip_starts, tol_s,
                                           k + 1, used \cup {j})
                       : j \in allowed }
         IN  CHOOSE m \in {skip} \cup take :
                 \A n \in {skip} \cup take : m >= n
MaxMatching(detections, dip_starts, tol_s) ==
    MaxMatchingFrom(detections, dip_starts, tol_s, 1, {})

\* C31: for the time-ordered detections and dip starts of every trial, the
\* number of true positives of the first-available matching equals the size
\* of a largest one-to-one matching of detections with dip starts whose
\* times differ by at most TP_TOL_S.
C31_GreedyMatchingIsMaximum ==
    h_pc = "matched" =>
        h_match.tp = MaxMatching(h_detections, h_dip_starts, h_cfg.TP_TOL_S)

\* A matching in which the choice mattered: the first detection had both
\* dip starts within the tolerance and the second detection only the later
\* one, and both detections were matched.
C31_Witness ==
    /\ h_pc = "matched"
    /\ Len(h_detections) = 2 /\ Len(h_dip_starts) = 2
    /\ Within(h_dip_starts, h_detections[1], h_cfg.TP_TOL_S) = {0, 1}
    /\ Within(h_dip_starts, h_detections[2], h_cfg.TP_TOL_S) = {1}
    /\ h_match.pairs = << <<0, 0>>, <<1, 1>> >>
    /\ MaxMatching(h_detections, h_dip_starts, h_cfg.TP_TOL_S) = 2

(***************************************************************************)
(* The replacement rule of the batch Kalman peak picker.                   *)
(***************************************************************************)
\* The number of maximal runs of contiguous candidates.
ClusterCount ==
    Cardinality({ k \in 1..Len(km_candidates) :
                    k = 1 \/ km_candidates[k] - km_candidates[k - 1] > 1 })

\* C32: when the best index c of a cluster lies fewer than min_sep_samples
\* after the last detection d, the loop iteration overwrites d with c if
\* z[c] < z[d] and leaves the detections as they are otherwise; the length
\* of the detections and every detection before d stay as they were; and
\* there are never more detections than runs of contiguous candidates.
C32_BatchKalmanReplacementRule ==
    [][ \A c \in { ClusterScan(km_candidates, km_z_corr, km_i + 1,
                               km_candidates[km_i + 1]).best_idx
                   : i \in { i \in {km_i} : /\ km_pc = "loop"
                                            /\ km_i < Len(km_candidates) } } :
          /\ Len(km_dets') <= ClusterCount
          /\ (/\ km_dets # <<>>
              /\ c - km_dets[Len(km_dets)] < min_sep_samples(km_cfg)) =>
                /\ Len(km_dets') = Len(km_dets)
                /\ \A k \in 1..(Len(km_dets) - 1) : km_dets'[k] = km_dets[k]
                /\ km_dets'[Len(km_dets)]
                     = IF km_z_corr[c + 1]
                          < km_z_corr[km_dets[Len(km_dets)] + 1]
                       THEN c ELSE km_dets[Len(km_dets)]
      ]_vars

\* A cluster inside the separation has just been dropped while an earlier
\* detection stood before the last one, and fewer detections than runs of
\* candidates were found.
C32_Witness ==
    /\ km_event = "drop"
    /\ Len(km_dets) >= 2
    /\ Len(km_dets) < ClusterCount

(***************************************************************************)
(* The start-up latch of DipDetector.                                      *)
(***************************************************************************)
\* C33: within a trial started never goes from True to False, and it is
\* True after an update() only if it was True before or the buffer then
\* holds a non-zero normalised sample; an update() that leaves started
\* False returns (None, False, 0.0), leaves cooldown and rho_std as they
\* were and records no detection.
C33_StartupLatch ==
    [][ (dd_pc = "samples" /\ dd_i' = dd_i + 1) =>
          /\ dd_det.started => dd_det'.started
          /\ dd_det'.started =>
                \/ dd_det.started
                \/ \E j \in 1..Len(dd_det'.buf) : dd_det'.buf[j] # 0
          /\ ~dd_det'.started =>
                /\ dd_ret' = <<None, FALSE, 0>>
                /\ dd_det'.cooldown = dd_det.cooldown
                /\ dd_det'.rho_std = dd_det.rho_std
                /\ dd_detections' = dd_detections
      ]_vars

\* A detector that stayed unstarted over two zero samples has since
\* latched and later fired.
C33_Witness ==
    /\ dd_pc = "samples"
    /\ Len(dd_xs) >= 4
    /\ dd_xs[1] = 0 /\ dd_xs[2] = 0
    /\ dd_det.started
    /\ dd_detections # <<>>

(***************************************************************************)
(* The running sum of the streaming moving average.                        *)
(***************************************************************************)
\* C38: after every processed sample ma_sum equals the sum of the values
\* held in ma_buf, and ma_buf never holds more than w values.
C38_RunningSumInvariant ==
    /\ ma_sum = SumSeq(ma_buf)
    /\ Len(ma_buf) <= w(cfg)

(***************************************************************************)
(* Properties of the unified DAQ/RIG server.                               *)
(***************************************************************************)
\* C34: every row of daq_samples is a sample that was produced while
\* recording was active (started and neither paused nor stopped).
C34_OnlySamplesProducedWhileRecording ==
    srv # <<>> => FALSE \notin db.rows

\* C36: for the DAQ and the RIG session, a configure() called while the
\* acquisition task is alive raises RuntimeError, the configuration never
\* changes while the task is alive, a start() never leaves a second task
\* alive, and a task in its loop uses the configuration that was in force
\* when start() created it.
C36_SessionLifecycle ==
    /\ [](srv # <<>> =>
            \A s \in Sessions :
               /\ sess[s].extra = 0
               /\ sess[s].task.st = "running" =>
                     sess[s].task.used = sess[s].task.at_start)
    /\ [][ \A s \in Sessions :
              sess[s].task.st \in {"pending", "running"} =>
                 /\ sess'[s].cfg = sess[s].cfg
                 /\ (called'.who = s /\ called'.op = "configure") =>
                       called'.exc = "RuntimeError"
                 /\ sess'[s].task.st = "pending" =>
                       [sess'[s].task EXCEPT !.cancel = FALSE]
                          = [sess[s].task EXCEPT !.cancel = FALSE]
       ]_vars

\* A configure() has just been refused for a session whose task is in its
\* loop with a configuration an earlier configure() had set.
C36_Witness ==
    /\ srv # <<>>
    /\ called.op = "configure"
    /\ called.exc = "RuntimeError"
    /\ sess[called.who].task.st = "running"
    /\ sess[called.who].task.used = 2

\* The shutdown has run to its end: the websocket server is closed, no
\* session task and no consumer task is alive, no batch was lost since the
\* shutdown command and the SQLite connection is closed.
ShutdownComplete ==
    /\ ~srv.ws_open
    /\ \A s \in Sessions : sess[s].task.st \notin {"pending", "running"}
    /\ \A p \in 1..Len(consumers) :
          /\ consumers[p].daq.st \notin {"pending", "running"}
          /\ consumers[p].rig.st \notin {"pending", "running"}
    /\ ~db.lost
    /\ ~rec.conn

\* C37: once a client has sent the shutdown command, eventually the
\* shutdown has run to its end, whatever subset of DAQ, RIG and recorder
\* was running.
C37_ShutdownCompletes ==
    (srv # <<>> /\ srv.shutdown_evt) ~> ShutdownComplete

(***************************************************************************)
(* Properties of the broadcast servers.                                    *)
(***************************************************************************)
\* C35: whichever of send_with_timeout and the handler's finally block
\* removes a websocket first, the finally block does not raise, and after
\* it the websocket is not in clients.
C35_HandlerCleanupNeverRaises ==
    \A c \in DOMAIN ws :
        /\ ws[c].pc # "KeyError"
        /\ ws[c].pc = "ended" => c \notin clients

====
